---- MODULE Spec2Model ----
(***************************************************************************)
(* Model of loshx/movie-rec, ml service.                                   *)
(*                                                                         *)
(*   src/ml/api.py    the in-memory bundle cache, its single lock, and the *)
(*                    request handlers that use it (Spec)                  *)
(*   src/ml/train.py  interaction normalisation (SpecNorm) and the         *)
(*                    blend-and-rank engine with its explainer (SpecRec)   *)
(*                                                                         *)
(* Real numbers of the Python code are fixed-point integers here, in units *)
(* of 1/SCALE.                                                             *)
(***************************************************************************)
EXTENDS Integers, Sequences, FiniteSets, TLC

VARIABLES
    \* ---- src/ml/api.py: module state and the store behind it
    lock,           \* _model_lock: the request holding it, or NoReq
    cache,          \* _artifacts_by_media: partition -> bundle reference (0: no entry)
    rowsLoaded,     \* _rows_loaded_by_media: partition -> int
    heap,           \* the RecoArtifacts objects allocated so far (reference = index)
    dbRows,         \* user_interactions: number of rows per media_type
    dbFollows,      \* user_follows: version of the table's contents
    \* ---- per request (each is served on a worker thread of its own)
    pc,             \* position in the handler
    arg,            \* media_type of the request ("all" is None of _invalidate_model)
    df,             \* local df: the number of interaction rows loaded
    fdf,            \* local follows_df: the follows version loaded
    art,            \* local artifacts / cached: a bundle reference
    ret,            \* the row count of the response (rows / model_rows)
    \* ---- history (not program state)
    gen,            \* partition -> number of completed removals of its cache entry
    pubGen,         \* bundle reference -> gen of its partition when it was published
    startGen,       \* request -> gen of its partition when the request arrived
    dataVer,        \* number of committed writes to user_interactions and user_follows
    wroteVer,       \* request -> partition -> dataVer as the request's own commit left
                    \* it, if the commit changed the data the partition is trained on
                    \* (0: it did not)
    loadVer,        \* request -> dataVer when it loaded the interactions
    pubVer,         \* bundle reference -> dataVer when its interactions were loaded
    startAck,       \* request -> the latest write to its partition's data whose
                    \* request had returned when this one arrived
    \* ---- src/ml/train.py, _normalize_scores (SpecNorm)
    events,         \* the interactions DataFrame: a sequence of event rows
    normalized,     \* the DataFrame _normalize_scores returns: a set of score rows
    normDone,       \* TRUE once _normalize_scores has returned
    \* ---- src/ml/train.py, recommend and explain_recommendation (SpecRec)
    interactions,   \* the DataFrame train_artifacts was given ({}: not modelled,
                    \* the bundle is built from a normalised frame)
    bundle,         \* art: the RecoArtifacts the queries run against
    phase,          \* "off", "trained", "recommended" or "explained"
    recUser,        \* user_id of the queries
    recTopN,        \* top_n of the recommend call
    recOut,         \* the list recommend returned
    explItem,       \* tmdb_id of the explain_recommendation call
    explOut,        \* the dict explain_recommendation returned
    \* ---- src/ml/train.py, the steps of the blend taken alone (SpecBlend)
    blendPhase,     \* "off", "drawn" or the name of the step that was applied
    blendArt,       \* art: the bundle whose follow table the weights are chosen from
    blendUser,      \* user_id
    blendSeen,      \* seen_count
    blendWeights,   \* the dict _effective_blend_weights returned
    blendRaw,       \* the raw score maps of recommend: knn, item, profile, svd, follow,
                    \* popularity
    blendOut,       \* the list the candidate loop and the sort of recommend returned
    compScores,     \* scores: the raw map handed to _normalize_component_scores
    compUseLog,     \* use_log
    compOut         \* the dict _normalize_component_scores returned

freshVars == <<dataVer, wroteVer, loadVer, pubVer, startAck>>
cacheVars == <<lock, cache, rowsLoaded, heap, dbRows, dbFollows, pc, arg, df, fdf, art,
               ret, gen, pubGen, startGen, freshVars>>
normVars == <<events, normalized, normDone>>
\* What the request handlers of api.py leave alone.
recVars == <<interactions, bundle, phase, recUser, recTopN, recOut, explItem, explOut>>
blendVars == <<blendPhase, blendArt, blendUser, blendSeen, blendWeights, blendRaw, blendOut,
               compScores, compUseLog, compOut>>
pureVars == <<normVars, recVars, blendVars>>
vars == <<cacheVars, pureVars>>

(***************************************************************************)
(* Bounds                                                                  *)
(***************************************************************************)
MaxReqs == 3     \* requests in one behaviour, all of which may overlap
MaxEvents == 3   \* rows of the interactions DataFrame given to _normalize_scores

Reqs == 1..MaxReqs
NoReq == 0
Partitions == {"movie", "tv"}
NoBundle == 0

\* No DataFrame has been given to _normalize_scores.
NormIdle ==
    /\ events = <<>>
    /\ normalized = {}
    /\ normDone = FALSE

\* The variables of the blend steps while none is modelled.
BlendIdle ==
    /\ blendPhase = "off"
    /\ blendArt = [user_ids |-> {}, item_ids |-> {}, cell |-> <<>>, knn |-> FALSE,
                   item_knn |-> FALSE, item_factors |-> {}, popularity |-> <<>>,
                   follows_by_follower |-> <<>>]
    /\ blendUser = 0
    /\ blendSeen = 0
    /\ blendWeights = [user_knn |-> 0, item_knn |-> 0, svd |-> 0, follow_taste |-> 0,
                       popularity |-> 0]
    /\ blendRaw = [knn |-> <<>>, item |-> <<>>, profile |-> <<>>, svd |-> <<>>,
                   follow |-> <<>>, popularity |-> <<>>]
    /\ blendOut = <<>>
    /\ compScores = <<>>
    /\ compUseLog = FALSE
    /\ compOut = <<>>

\* The recommend/explain variables while no query is modelled.
RecIdle ==
    /\ interactions = {}
    /\ bundle = [user_ids |-> {}, item_ids |-> {}, cell |-> <<>>, knn |-> FALSE,
                 item_knn |-> FALSE, item_factors |-> {}, popularity |-> <<>>,
                 follows_by_follower |-> <<>>]
    /\ phase = "off"
    /\ recUser = 0
    /\ recTopN = 0
    /\ recOut = <<>>
    /\ explItem = 0
    /\ explOut = [user_id |-> 0, tmdb_id |-> 0, already_seen |-> FALSE, final_score |-> 0,
                  score_parts |-> [user_knn |-> 0, item_knn |-> 0, svd |-> 0,
                                   follow_taste |-> 0, popularity |-> 0],
                  top_neighbor_users |-> {}, similar_seen_items |-> {}]

(***************************************************************************)
(* src/ml/api.py                                                           *)
(***************************************************************************)
\* Positions inside a `with _model_lock:` block.
InLock == {"ens_check", "ens_load", "ens_follows", "ens_train",
           "tr_load", "tr_follows", "tr_train", "inv_clear"}
\* Positions inside the block from the first load to the publication.
Building == {"ens_load", "ens_follows", "ens_train",
             "tr_load", "tr_follows", "tr_train"}
\* Positions waiting for the lock.
Waiting == {"ens_acquire", "tr_acquire", "inv_acquire"}

Goto(t, l) == pc' = [pc EXCEPT ![t] = l]

\* Mutant of Acquire: the lock is taken without waiting for it to be free.
Acquire_NoWait(t) == lock' = t

\* Lock.acquire of `with _model_lock:`: blocks until the lock is free.
Acquire(t) == lock = NoReq /\ lock' = t

\* Lock.release at the end of the with block.
Release(t) == lock' = NoReq

\* No request has arrived; the process has just started.
CacheIdle ==
    /\ lock = NoReq
    /\ cache = [p \in Partitions |-> NoBundle]
    /\ rowsLoaded = [p \in Partitions |-> 0]
    /\ heap = <<>>
    /\ dbRows = [p \in Partitions |-> 0]
    /\ dbFollows = 0
    /\ pc = [t \in Reqs |-> "idle"]
    /\ arg = [t \in Reqs |-> "movie"]
    /\ df = [t \in Reqs |-> 0]
    /\ fdf = [t \in Reqs |-> 0]
    /\ art = [t \in Reqs |-> NoBundle]
    /\ ret = [t \in Reqs |-> 0]
    /\ gen = [p \in Partitions |-> 0]
    /\ pubGen = <<>>
    /\ startGen = [t \in Reqs |-> 0]
    /\ dataVer = 0
    /\ wroteVer = [t \in Reqs |-> [p \in Partitions |-> 0]]
    /\ loadVer = [t \in Reqs |-> 0]
    /\ pubVer = <<>>
    /\ startAck = [t \in Reqs |-> 0]

InitCache ==
    /\ CacheIdle
    /\ NormIdle
    /\ RecIdle
    /\ BlendIdle

\* The latest write to the data of partition p (its interactions, or the follows)
\* among those of the requests that have returned.
AckedVer(p) ==
    LET acked == {wroteVer[u][p] : u \in {v \in Reqs : pc[v] = "inv_done"}} \cup {0}
    IN  CHOOSE m \in acked : \A n \in acked : n <= m

\* A request arrives and is given a worker thread (requests are numbered in the
\* order of their arrival).
Begin(t, p, l) ==
    /\ pc[t] = "idle"
    /\ \A u \in Reqs : u < t => pc[u] # "idle"
    /\ Goto(t, l)
    /\ arg' = [arg EXCEPT ![t] = p]
    /\ startGen' = [startGen EXCEPT ![t] = IF l = "ens_acquire" THEN gen[p] ELSE 0]
    /\ startAck' = [startAck EXCEPT ![t] = IF l = "ens_acquire" THEN AckedVer(p) ELSE 0]
    /\ UNCHANGED <<lock, cache, rowsLoaded, heap, dbRows, dbFollows, df, fdf, art, ret,
                   gen, pubGen, dataVer, wroteVer, loadVer, pubVer, pureVars>>

\* GET /recommendations/{user_id} and GET /explain/{user_id}/{tmdb_id}: both start
\* with artifacts = _ensure_model(media_type).
RecommendationsCall(t) == \E p \in Partitions : Begin(t, p, "ens_acquire")

\* _ensure_model: with _model_lock:
EnsAcquire(t) ==
    /\ pc[t] = "ens_acquire"
    /\ Acquire(t)
    /\ Goto(t, "ens_check")
    /\ UNCHANGED <<cache, rowsLoaded, heap, dbRows, dbFollows, arg, df, fdf, art, ret,
                   gen, pubGen, startGen, freshVars, pureVars>>

\* Mutant of EnsCheck: the cached bundle is returned with the lock still held.
EnsCheck_KeepsLock(t) ==
    /\ pc[t] = "ens_check"
    /\ IF cache[arg[t]] # NoBundle
         THEN /\ art' = [art EXCEPT ![t] = cache[arg[t]]]
              /\ Goto(t, "rec_compute")
         ELSE /\ Goto(t, "ens_load")
              /\ UNCHANGED art
    /\ UNCHANGED <<lock, cache, rowsLoaded, heap, dbRows, dbFollows, arg, df, fdf, ret,
                   gen, pubGen, startGen, freshVars, pureVars>>

\* Mutant of EnsCheck: the cache is not looked at, every reader loads and trains.
EnsCheck_AlwaysLoads(t) ==
    /\ pc[t] = "ens_check"
    /\ Goto(t, "ens_load")
    /\ UNCHANGED <<art, lock>>
    /\ UNCHANGED <<cache, rowsLoaded, heap, dbRows, dbFollows, arg, df, fdf, ret,
                   gen, pubGen, startGen, freshVars, pureVars>>

\* _ensure_model: cached = _artifacts_by_media.get(media_type);
\* if cached is not None: return cached  (the return leaves the with block)
EnsCheck(t) ==
    /\ pc[t] = "ens_check"
    /\ IF cache[arg[t]] # NoBundle
         THEN /\ art' = [art EXCEPT ![t] = cache[arg[t]]]
              /\ Release(t)
              /\ Goto(t, "rec_compute")
         ELSE /\ Goto(t, "ens_load")
              /\ UNCHANGED <<art, lock>>
    /\ UNCHANGED <<cache, rowsLoaded, heap, dbRows, dbFollows, arg, df, fdf, ret,
                   gen, pubGen, startGen, freshVars, pureVars>>

\* _ensure_model: df = _load_interactions(media_type);
\* _rows_loaded_by_media[media_type] = int(len(df))
EnsLoad(t) ==
    /\ pc[t] = "ens_load"
    /\ df' = [df EXCEPT ![t] = dbRows[arg[t]]]
    /\ rowsLoaded' = [rowsLoaded EXCEPT ![arg[t]] = dbRows[arg[t]]]
    /\ loadVer' = [loadVer EXCEPT ![t] = dataVer]
    /\ Goto(t, "ens_follows")
    /\ UNCHANGED <<lock, cache, heap, dbRows, dbFollows, arg, fdf, art, ret,
                   gen, pubGen, startGen, dataVer, wroteVer, pubVer, startAck, pureVars>>

\* _ensure_model: follows_df = _load_follows()
EnsFollows(t) ==
    /\ pc[t] = "ens_follows"
    /\ fdf' = [fdf EXCEPT ![t] = dbFollows]
    /\ Goto(t, "ens_train")
    /\ UNCHANGED <<lock, cache, rowsLoaded, heap, dbRows, dbFollows, arg, df, art, ret,
                   gen, pubGen, startGen, freshVars, pureVars>>

\* train_artifacts(df, follows=follows_df): a new RecoArtifacts object.
NewBundle(t) == [media |-> arg[t], rows |-> df[t], follows |-> fdf[t]]

\* Mutant of TrainAndPublish: a cached bundle is refreshed in place instead of being
\* superseded by a new object.
TrainAndPublish_InPlace(t) ==
    /\ IF cache[arg[t]] # NoBundle
         THEN /\ heap' = [heap EXCEPT ![cache[arg[t]]] = NewBundle(t)]
              /\ art' = [art EXCEPT ![t] = cache[arg[t]]]
              /\ pubVer' = [pubVer EXCEPT ![cache[arg[t]]] = loadVer[t]]
              /\ UNCHANGED <<cache, pubGen>>
         ELSE /\ heap' = Append(heap, NewBundle(t))
              /\ art' = [art EXCEPT ![t] = Len(heap) + 1]
              /\ cache' = [cache EXCEPT ![arg[t]] = Len(heap) + 1]
              /\ pubGen' = Append(pubGen, gen[arg[t]])
              /\ pubVer' = Append(pubVer, loadVer[t])
    /\ loadVer' = [loadVer EXCEPT ![t] = 0]
    /\ df' = [df EXCEPT ![t] = 0]
    /\ fdf' = [fdf EXCEPT ![t] = 0]

\* artifacts = train_artifacts(df, follows=follows_df);
\* _artifacts_by_media[media_type] = artifacts: the new object is allocated and the
\* partition's entry is set to refer to it. df and follows_df are not read again.
TrainAndPublish(t) ==
    /\ heap' = Append(heap, NewBundle(t))
    /\ art' = [art EXCEPT ![t] = Len(heap) + 1]
    /\ cache' = [cache EXCEPT ![arg[t]] = Len(heap) + 1]
    /\ pubGen' = Append(pubGen, gen[arg[t]])
    /\ pubVer' = Append(pubVer, loadVer[t])
    /\ loadVer' = [loadVer EXCEPT ![t] = 0]
    /\ df' = [df EXCEPT ![t] = 0]
    /\ fdf' = [fdf EXCEPT ![t] = 0]

\* _ensure_model: artifacts = train_artifacts(...); _artifacts_by_media[media_type] =
\* artifacts; return artifacts  (the return leaves the with block)
EnsTrain(t) ==
    /\ pc[t] = "ens_train"
    /\ TrainAndPublish(t)
    /\ Release(t)
    /\ Goto(t, "rec_compute")
    /\ UNCHANGED <<rowsLoaded, dbRows, dbFollows, arg, ret, gen, startGen, dataVer, wroteVer,
                   startAck, pureVars>>

\* recommendations / explain: rows = recommend(artifacts, ...) /
\* payload = explain_recommendation(artifacts, ...), which read the bundle with no
\* lock held (position rec_compute), then the response is built with
\* model_rows=_rows_loaded_by_media.get(media_type, 0)
RecRespond(t) ==
    /\ pc[t] = "rec_compute"
    /\ ret' = [ret EXCEPT ![t] = rowsLoaded[arg[t]]]
    /\ startGen' = [startGen EXCEPT ![t] = 0]
    /\ startAck' = [startAck EXCEPT ![t] = 0]
    /\ Goto(t, "rec_done")
    /\ UNCHANGED <<lock, cache, rowsLoaded, heap, dbRows, dbFollows, arg, df, fdf, art,
                   gen, pubGen, dataVer, wroteVer, loadVer, pubVer, pureVars>>

\* Mutant of Raise: the exception leaves the block without releasing the lock (as
\* after a bare _model_lock.acquire() with no try/finally).
Raise_KeepsLock(t, l) ==
    /\ UNCHANGED lock
    /\ Goto(t, l)
    /\ df' = [df EXCEPT ![t] = 0]
    /\ fdf' = [fdf EXCEPT ![t] = 0]
    /\ loadVer' = [loadVer EXCEPT ![t] = 0]

\* An exception leaves the with block of request t: the lock is released, the
\* locals are gone and the handler ends at position l without a response.
Raise(t, l) ==
    /\ Release(t)
    /\ Goto(t, l)
    /\ df' = [df EXCEPT ![t] = 0]
    /\ fdf' = [fdf EXCEPT ![t] = 0]
    /\ loadVer' = [loadVer EXCEPT ![t] = 0]

\* _ensure_model: _load_interactions (at ens_load), _load_follows (at ens_follows) or
\* train_artifacts (at ens_train) raises.  Nothing catches it.
EnsFail(t) ==
    /\ pc[t] \in {"ens_load", "ens_follows", "ens_train"}
    /\ Raise(t, "ens_failed")
    /\ UNCHANGED <<cache, rowsLoaded, heap, dbRows, dbFollows, arg, art, ret, gen, pubGen,
                   startGen, dataVer, wroteVer, pubVer, startAck, pureVars>>

\* train: _load_interactions (at tr_load), _load_follows (at tr_follows) or
\* train_artifacts (at tr_train) raises.  Nothing catches it.
TrFail(t) ==
    /\ pc[t] \in {"tr_load", "tr_follows", "tr_train"}
    /\ Raise(t, "tr_failed")
    /\ UNCHANGED <<cache, rowsLoaded, heap, dbRows, dbFollows, arg, art, ret, gen, pubGen,
                   startGen, dataVer, wroteVer, pubVer, startAck, pureVars>>

\* POST /train
TrainCall(t) == \E p \in Partitions : Begin(t, p, "tr_acquire")

\* train: with _model_lock:
TrAcquire(t) ==
    /\ pc[t] = "tr_acquire"
    /\ Acquire(t)
    /\ Goto(t, "tr_load")
    /\ UNCHANGED <<cache, rowsLoaded, heap, dbRows, dbFollows, arg, df, fdf, art, ret,
                   gen, pubGen, startGen, freshVars, pureVars>>

\* train: df = _load_interactions(media_type)
TrLoad(t) ==
    /\ pc[t] = "tr_load"
    /\ df' = [df EXCEPT ![t] = dbRows[arg[t]]]
    /\ loadVer' = [loadVer EXCEPT ![t] = dataVer]
    /\ Goto(t, "tr_follows")
    /\ UNCHANGED <<lock, cache, rowsLoaded, heap, dbRows, dbFollows, arg, fdf, art, ret,
                   gen, pubGen, startGen, dataVer, wroteVer, pubVer, startAck, pureVars>>

\* train: follows_df = _load_follows();
\* _rows_loaded_by_media[media_type] = int(len(df))
TrFollows(t) ==
    /\ pc[t] = "tr_follows"
    /\ fdf' = [fdf EXCEPT ![t] = dbFollows]
    /\ rowsLoaded' = [rowsLoaded EXCEPT ![arg[t]] = df[t]]
    /\ Goto(t, "tr_train")
    /\ UNCHANGED <<lock, cache, heap, dbRows, dbFollows, arg, df, art, ret,
                   gen, pubGen, startGen, freshVars, pureVars>>

\* train: _artifacts_by_media[media_type] = train_artifacts(df, follows=follows_df);
\* the with block ends
TrTrain(t) ==
    /\ pc[t] = "tr_train"
    /\ TrainAndPublish(t)
    /\ Release(t)
    /\ Goto(t, "tr_ret")
    /\ UNCHANGED <<rowsLoaded, dbRows, dbFollows, arg, ret, gen, startGen, dataVer, wroteVer,
                   startAck, pureVars>>

\* train: return {"ok": True, "rows": _rows_loaded_by_media[media_type], ...}
TrRet(t) ==
    /\ pc[t] = "tr_ret"
    /\ ret' = [ret EXCEPT ![t] = rowsLoaded[arg[t]]]
    /\ Goto(t, "tr_done")
    /\ UNCHANGED <<lock, cache, rowsLoaded, heap, dbRows, dbFollows, arg, df, fdf, art,
                   gen, pubGen, startGen, freshVars, pureVars>>

\* POST /ingest
IngestCall(t) == \E p \in Partitions : Begin(t, p, "ing_commit")

\* ingest_one: the transaction (INSERT ... ON CONFLICT DO NOTHING: the row is added,
\* or it is already there); _invalidate_model(payload.media_type) follows
IngCommit(t) ==
    /\ pc[t] = "ing_commit"
    /\ \E added \in {0, 1} :
          /\ dbRows' = [dbRows EXCEPT ![arg[t]] = @ + added]
          /\ dataVer' = dataVer + added
          /\ wroteVer' = [wroteVer EXCEPT ![t][arg[t]] = IF added = 1 THEN dataVer + 1 ELSE 0]
    /\ Goto(t, "inv_acquire")
    /\ UNCHANGED <<lock, cache, rowsLoaded, heap, dbFollows, arg, df, fdf, art, ret,
                   gen, pubGen, startGen, loadVer, pubVer, startAck, pureVars>>

\* POST /ingest/replace-user
ReplaceUserCall(t) == Begin(t, "all", "rep_commit")

\* ingest_replace_user: the transaction (DELETE of the user's rows, INSERT of the
\* payload's).  Per media_type either the user's rows were all there was and none
\* is inserted, or the user had none and one is inserted.
\* _invalidate_model(None) follows
RepCommit(t) ==
    /\ pc[t] = "rep_commit"
    /\ \E emptied \in SUBSET Partitions :
          dbRows' = [p \in Partitions |-> IF p \in emptied THEN 0 ELSE dbRows[p] + 1]
    /\ dataVer' = dataVer + 1
    /\ wroteVer' = [wroteVer EXCEPT ![t] = [p \in Partitions |-> dataVer + 1]]
    /\ Goto(t, "inv_acquire")
    /\ UNCHANGED <<lock, cache, rowsLoaded, heap, dbFollows, arg, df, fdf, art, ret,
                   gen, pubGen, startGen, loadVer, pubVer, startAck, pureVars>>

\* Mutant of SyncFollowsCall: only the movie entry is invalidated after the sync.
SyncFollowsCall_MovieOnly(t) == Begin(t, "movie", "syn_commit")

\* POST /follows/sync
SyncFollowsCall(t) == Begin(t, "all", "syn_commit")

\* sync_follows: the transaction (DELETE, then INSERTs); _invalidate_model(None) follows
SynCommit(t) ==
    /\ pc[t] = "syn_commit"
    /\ dbFollows' = dbFollows + 1
    /\ dataVer' = dataVer + 1
    /\ wroteVer' = [wroteVer EXCEPT ![t] = [p \in Partitions |-> dataVer + 1]]
    /\ Goto(t, "inv_acquire")
    /\ UNCHANGED <<lock, cache, rowsLoaded, heap, dbRows, arg, df, fdf, art, ret,
                   gen, pubGen, startGen, loadVer, pubVer, startAck, pureVars>>

\* _invalidate_model: with _model_lock:
InvAcquire(t) ==
    /\ pc[t] = "inv_acquire"
    /\ Acquire(t)
    /\ Goto(t, "inv_clear")
    /\ UNCHANGED <<cache, rowsLoaded, heap, dbRows, dbFollows, arg, df, fdf, art, ret,
                   gen, pubGen, startGen, freshVars, pureVars>>

\* Mutant of Dropped: pop(media_type) is given a key that is never cached, and
\* clear() is skipped.
Dropped_None(a) == {}

\* The partitions whose entry _invalidate_model(media_type) removes.
Dropped(a) == IF a = "all" THEN Partitions ELSE {a}

\* _invalidate_model: _artifacts_by_media.clear() / .pop(media_type, None);
\* the with block ends
InvClear(t) ==
    /\ pc[t] = "inv_clear"
    /\ cache' = [p \in Partitions |-> IF p \in Dropped(arg[t]) THEN NoBundle ELSE cache[p]]
    /\ gen' = [p \in Partitions |-> IF p \in Dropped(arg[t]) THEN gen[p] + 1 ELSE gen[p]]
    /\ Release(t)
    /\ Goto(t, "inv_done")
    /\ UNCHANGED <<rowsLoaded, heap, dbRows, dbFollows, arg, df, fdf, art, ret,
                   pubGen, startGen, freshVars, pureVars>>

NextCache ==
    \E t \in Reqs :
        \/ RecommendationsCall(t)
        \/ EnsAcquire(t)
        \/ EnsCheck(t)
        \/ EnsLoad(t)
        \/ EnsFollows(t)
        \/ EnsTrain(t)
        \/ RecRespond(t)
        \/ EnsFail(t)
        \/ TrFail(t)
        \/ TrainCall(t)
        \/ TrAcquire(t)
        \/ TrLoad(t)
        \/ TrFollows(t)
        \/ TrTrain(t)
        \/ TrRet(t)
        \/ IngestCall(t)
        \/ IngCommit(t)
        \/ SyncFollowsCall(t)
        \/ SynCommit(t)
        \/ ReplaceUserCall(t)
        \/ RepCommit(t)
        \/ InvAcquire(t)
        \/ InvClear(t)

Spec == InitCache /\ [][NextCache]_vars

\* The steps of request t's handler once the request has arrived: the body of the
\* handler, run by the worker thread the request was given.
HandlerStep(t) ==
    \/ EnsAcquire(t)
    \/ EnsCheck(t)
    \/ EnsLoad(t)
    \/ EnsFollows(t)
    \/ EnsTrain(t)
    \/ RecRespond(t)
    \/ TrAcquire(t)
    \/ TrLoad(t)
    \/ TrFollows(t)
    \/ TrTrain(t)
    \/ TrRet(t)
    \/ IngCommit(t)
    \/ SynCommit(t)
    \/ RepCommit(t)
    \/ InvAcquire(t)
    \/ InvClear(t)

\* Synchronous request handling, no background workers: each handler runs on its own
\* worker thread, and a thread that can run is eventually run.  A load or a training
\* that has started ends (by returning, or by raising).  Nothing is assumed about
\* which waiting thread a released lock goes to.
FairScheduling == \A t \in Reqs : WF_vars(HandlerStep(t))

SpecLive == InitCache /\ [][NextCache]_vars /\ FairScheduling

(***************************************************************************)
(* Claims about the cache protocol (checked under Spec)                    *)
(***************************************************************************)

\* C2: while a request is inside _ensure_model or train, between the cache check and
\* the publication of the new bundle, it holds the lock, and no other request is at
\* any position inside a lock-protected block (loading, training, or writing the
\* cache) for any partition.
C2_ExclusiveLoadAndTrain ==
    \A t \in Reqs :
        pc[t] \in InLock =>
            /\ lock = t
            /\ \A u \in Reqs \ {t} : pc[u] \notin InLock

\* C2 witness: one request is training a partition while a second request, for the
\* other partition, waits for the lock.
C2_Witness ==
    \E t, u \in Reqs :
        /\ pc[t] \in {"ens_train", "tr_train"}
        /\ pc[u] \in Waiting
        /\ arg[u] \in Partitions \ {arg[t]}

\* C3 as stated: a reader whose partition has a cached bundle never has to wait for
\* the lock (it is never at the lock acquisition while the lock is taken).
C3_CachedReaderNeverWaits ==
    \A t \in Reqs :
        (pc[t] = "ens_acquire" /\ cache[arg[t]] # NoBundle) => lock = NoReq

\* C3 amended: a reader holds the single lock for the cache check itself (so it
\* waits while the lock is taken), and from the moment it has the cached reference it
\* holds no lock: its computation and response run unlocked.
C3_ReaderHoldsLockOnlyForCheck ==
    \A t \in Reqs :
        /\ pc[t] = "ens_check" => lock = t
        /\ pc[t] \in {"rec_compute", "rec_done"} => (lock # t /\ art[t] # NoBundle)

\* C3 witness: two readers compute on the same cached bundle at once while a third
\* request is building a bundle under the lock.
C3_Witness ==
    \E t, u, v \in Reqs :
        /\ t # u
        /\ pc[t] = "rec_compute" /\ pc[u] = "rec_compute"
        /\ art[t] = art[u] /\ art[t] # NoBundle
        /\ pc[v] \in Building /\ lock = v

\* A step in which request t leaves position l.
Leaves(t, l) == pc[t] = l /\ pc'[t] # l

\* C4: _invalidate_model(p) leaves p without an entry and every other partition's
\* entry as it was, and _invalidate_model(None) leaves no entry at all; a reader
\* that finds its partition without an entry goes on to load and train; and the
\* bundle a reader answers from was published after every removal of its partition's
\* entry that completed before the request arrived.
C4_InvalidateThenRetrain ==
    /\ [][\A t \in Reqs :
            /\ Leaves(t, "inv_clear") =>
                  \A p \in Partitions :
                      cache'[p] = IF arg[t] \in {p, "all"} THEN NoBundle ELSE cache[p]
            /\ (Leaves(t, "ens_check") /\ cache[arg[t]] = NoBundle) =>
                  (pc'[t] = "ens_load" /\ lock' = t)]_vars
    /\ [](\A t \in Reqs :
            pc[t] = "rec_compute" =>
                /\ art[t] \in 1..Len(heap)
                /\ heap[art[t]].media = arg[t]
                /\ pubGen[art[t]] >= startGen[t])

\* C4 witness: a bundle of a partition was cached, the entry was removed, and a reader
\* that arrived after the removal has trained a second bundle and answers from it.
C4_Witness ==
    \E t \in Reqs :
        /\ pc[t] = "rec_compute"
        /\ startGen[t] = 1
        /\ Len(heap) = 2 /\ art[t] = 2
        /\ heap[1].media = arg[t]
        /\ pubGen[1] = 0 /\ pubGen[2] = 1

\* C5: a partition's entry is either absent or one bundle built for that partition;
\* an entry changes only in a step of the request that holds the lock, and then to
\* "absent" or to an object allocated in that very step; an object once allocated is
\* never changed.
C5_WholeBundleReplacementUnderLock ==
    /\ [](\A p \in Partitions :
            cache[p] # NoBundle => (cache[p] \in 1..Len(heap) /\ heap[cache[p]].media = p))
    /\ [][/\ \A p \in Partitions :
                cache'[p] # cache[p] =>
                    /\ lock # NoReq
                    /\ pc[lock] \in InLock
                    /\ pc'[lock] # pc[lock]
                    /\ cache'[p] \in {NoBundle, Len(heap) + 1}
          /\ Len(heap') >= Len(heap)
          /\ \A i \in 1..Len(heap) : heap'[i] = heap[i]]_vars

\* C5 witness: a cached bundle has been superseded by a second bundle of the same
\* partition, with no removal in between.
C5_Witness ==
    \E p \in Partitions :
        /\ Len(heap) >= 2
        /\ cache[p] = 2
        /\ heap[1].media = p
        /\ pubGen[1] = pubGen[2]
        /\ heap[1] # heap[2]

\* C6 as stated: the row count a train call returns is the number of rows that call
\* loaded (the rows of the bundle it built).
C6_TrainReturnsOwnRowCount ==
    \A t \in Reqs : pc[t] = "tr_done" => ret[t] = heap[art[t]].rows

\* C18: a recommend/explain request is answered from a bundle whose interactions
\* were loaded after the commit of every ingest, replace-user and follows-sync write
\* to its partition's data whose request had returned when it arrived (the follows
\* are loaded after the interactions); and the cache never holds, for a partition, a
\* bundle loaded before the commit of a write whose request has returned.
C18_FreshAfterAcknowledgedWrite ==
    /\ \A t \in Reqs :
          pc[t] = "rec_compute" =>
              /\ art[t] \in 1..Len(heap)
              /\ pubVer[art[t]] >= startAck[t]
    /\ \A p \in Partitions :
          cache[p] # NoBundle => pubVer[cache[p]] >= AckedVer(p)

\* A bundle loaded before a write was committed was published after the commit and
\* removed by the write's invalidation; a reader that arrived after the write had
\* returned is answered from a bundle that includes the write.
C18_Witness ==
    \E t \in Reqs, b \in 1..Len(heap) :
        /\ pc[t] = "rec_compute"
        /\ startAck[t] >= 1
        /\ heap[b].media = arg[t]
        /\ pubVer[b] < startAck[t]
        /\ art[t] # b

\* C19 as stated: the model_rows of a recommendations or explain response is the
\* number of interaction rows the bundle the response was computed from was
\* trained on, whatever the other requests do.
C19_ModelRowsOfBundleUsed ==
    \A t \in Reqs : pc[t] = "rec_done" => ret[t] = heap[art[t]].rows

\* No train request has arrived.
NoTrainCall == \A t \in Reqs : pc[t] \notin {"tr_acquire", "tr_load", "tr_follows",
                                              "tr_train", "tr_ret", "tr_done", "tr_failed"}

\* The bundles of partition p published while gen[p] was g.
BundlesOf(p, g) == {b \in 1..Len(heap) : heap[b].media = p /\ pubGen[b] = g}

\* The readers of partition p that have their bundle, a bundle of generation g.
AnsweredFrom(p, g) ==
    {t \in Reqs : /\ pc[t] \in {"rec_compute", "rec_done"}
                  /\ arg[t] = p
                  /\ art[t] \in BundlesOf(p, g)}

\* C20: as long as no train call is made, at most one bundle of a partition is
\* trained between two removals of the partition's entry (training runs once for the
\* empty slot, however many readers wait for it), and all the readers answered from
\* a bundle of that period are answered from that same bundle.
C20_OneTrainingPerEmptySlot ==
    NoTrainCall =>
        \A p \in Partitions, g \in 0..MaxReqs :
            /\ Cardinality(BundlesOf(p, g)) <= 1
            /\ \A t, u \in AnsweredFrom(p, g) : art[t] = art[u]

\* Every request is a reader of the same partition, the slot was empty when the
\* first arrived, and all have their bundle: the one bundle there is.
C20_Witness ==
    /\ \A t \in Reqs : pc[t] \in {"rec_compute", "rec_done"} /\ arg[t] = arg[1]
    /\ Len(heap) = 1
    /\ \A t \in Reqs : art[t] = 1

\* A step in which request t fails inside _ensure_model or train.
Fails(t) == pc[t] \in Building /\ pc'[t] \in {"ens_failed", "tr_failed"}

\* The row count recorded for every partition with an entry is the row count of
\* the bundle the entry refers to.
RowCountMatchesCache ==
    \A p \in Partitions : cache[p] # NoBundle => rowsLoaded[p] = heap[cache[p]].rows

\* The part of C21 that is about the lock and the cache: a failure inside
\* _ensure_model or train releases the lock and leaves every entry of the cache and
\* every bundle as it was, and the failing request held the lock since before it
\* loaded anything.
FailureReleasesAndKeepsCache ==
    [][\A t \in Reqs :
          Fails(t) => /\ lock = t
                      /\ lock' = NoReq
                      /\ cache' = cache
                      /\ heap' = heap]_vars

\* C21 as stated: a failure of the load or of the training inside _ensure_model or
\* train releases the lock, leaves the cache as it was, and after it the row count
\* recorded for the partition is still that of the bundle cached for it.
C21_FailureLeavesCacheAndRowCount ==
    [][\A t \in Reqs :
          Fails(t) => /\ lock' = NoReq
                      /\ cache' = cache
                      /\ heap' = heap
                      /\ RowCountMatchesCache']_vars

\* Positions after the with block of the call: the lock has been released.
Left == {"rec_compute", "rec_done", "ens_failed", "tr_ret", "tr_done", "tr_failed",
         "inv_done"}

\* A call stops waiting only by taking the free lock (so never while it already
\* holds the lock, which is not reentrant), and it enters its with block.
AcquiresFreeLock(t) ==
    pc[t] \in Waiting /\ pc'[t] # pc[t] => lock = NoReq /\ lock' = t /\ pc'[t] \in InLock

\* A call leaves its with block only as the holder of the lock, and releases it.
LeavesReleasing(t) ==
    pc[t] \in InLock /\ pc'[t] \notin InLock => lock = t /\ lock' = NoReq /\ pc'[t] \in Left

\* No call is waiting for the lock or inside its with block.
AllCallsOver == \A t \in Reqs : pc[t] \notin (Waiting \cup InLock)

\* C22: the cache protocol is deadlock-free and every request makes progress: under
\* fair scheduling and terminating training, every _ensure_model, train and
\* _invalidate_model call eventually acquires the lock, completes and releases it,
\* for any mix of concurrent requests over the partitions.  A call gets past the
\* acquisition only by taking the free lock (never while already holding it), it
\* leaves its with block only by releasing the lock it holds, and in every fair
\* behaviour the calls of all the requests that arrived are eventually over: none is
\* left waiting for the lock or holding it.
C22_EveryCallAcquiresAndReleases ==
    /\ [][\A t \in Reqs : AcquiresFreeLock(t) /\ LeavesReleasing(t)]_vars
    /\ <>[]AllCallsOver

\* One write request has invalidated and returned, another request is loading or
\* training under the lock, and a third is waiting for the lock.
C22_Witness ==
    \E t, u, v \in Reqs :
        /\ pc[t] = "inv_done"
        /\ lock = u /\ pc[u] \in Building
        /\ pc[v] \in Waiting

(***************************************************************************)
(* Fixed-point arithmetic: a Python float x is the integer x * SCALE       *)
(***************************************************************************)
SCALE == 1000

Min(a, b) == IF a <= b THEN a ELSE b
Max(a, b) == IF a >= b THEN a ELSE b

\* np.clip(x, lo, hi)
Clip(x, lo, hi) == Max(lo, Min(hi, x))

\* a * b of two fixed-point numbers
Mul(a, b) == (a * b) \div SCALE

\* The partial sums of exp(-f) = sum over k of (-f)^k / k!, for 0 <= f <= SCALE.
RECURSIVE ExpSeries(_, _, _, _)
ExpSeries(f, k, term, acc) ==
    IF k > 12 \/ term = 0
      THEN acc
      ELSE LET next == (0 - (term * f)) \div (k * SCALE)
           IN  ExpSeries(f, k + 1, next, acc + next)

\* np.exp(-x) for a fixed-point x >= 0: exp(-1) to the whole part, times exp(-frac).
RECURSIVE ExpNeg(_)
ExpNeg(x) ==
    IF x > SCALE
      THEN Mul(ExpSeries(SCALE, 1, SCALE, SCALE), ExpNeg(x - SCALE))
      ELSE ExpSeries(x, 1, SCALE, SCALE)

(***************************************************************************)
(* src/ml/train.py: interaction normalisation                              *)
(***************************************************************************)
EW_watchlist == 500
EW_watched == 1000
EW_favorite == 2000
EW_favorite_actor == 1650
RECENCY_HALF_LIFE_DAYS == 240
RECENCY_MIN_MULTIPLIER == 720
RECENCY_MAX_MULTIPLIER == 1080
SCORE_CEILING == 6000

\* EVENT_WEIGHTS.get(event_type, 0.0)
EVENT_WEIGHTS(event_type) ==
    CASE event_type = "watchlist" -> EW_watchlist
      [] event_type = "watched" -> EW_watched
      [] event_type = "favorite" -> EW_favorite
      [] event_type = "favorite_actor" -> EW_favorite_actor
      [] OTHER -> 0

\* An optional number (event_value, occurred_at) is the empty set for None / NaN /
\* NaT, else the singleton of its value.
None == {}
Some(x) == {x}
Get(opt) == CHOOSE x \in opt : TRUE

\* _event_weight(event_type, event_value); event_value is a whole number here.
EventWeight(event_type, event_value) ==
    IF event_type = "rating"
      THEN IF event_value = None \/ Get(event_value) <= 0
             THEN 0
             ELSE ((Clip(Get(event_value), 0, 10) * SCALE) \div 10) * 2
    ELSE IF event_type = "favorite_actor"
      THEN IF event_value # None /\ Get(event_value) <= 0
             THEN 0
           ELSE IF event_value = None
             THEN EVENT_WEIGHTS(event_type)
             ELSE LET quality == (Clip(Get(event_value), 0, 10) * SCALE) \div 10
                  IN  Mul(EVENT_WEIGHTS(event_type), 750 + Mul(250, quality))
    ELSE LET base == EVENT_WEIGHTS(event_type)
         IN  IF base <= 0 THEN 0
             ELSE IF event_value # None /\ Get(event_value) <= 0 THEN 0
             ELSE base

\* pd.Timestamp.now(tz="UTC") of the normalisation, as a day number.
Now == 480

\* _recency_multiplier(ts, now_ts); timestamps are day numbers.
RecencyMultiplier(ts, now_ts) ==
    LET age_days == Max(0, now_ts - ts)
        decay == ExpNeg((age_days * SCALE) \div RECENCY_HALF_LIFE_DAYS)
    IN  RECENCY_MIN_MULTIPLIER
          + Mul(RECENCY_MAX_MULTIPLIER - RECENCY_MIN_MULTIPLIER, decay)

\* The alphabetical order of the event_type strings the sort compares.
EventTypeRank(event_type) ==
    CASE event_type = "favorite" -> 1
      [] event_type = "favorite_actor" -> 2
      [] event_type = "rating" -> 3
      [] event_type = "shared" -> 4
      [] event_type = "watched" -> 5
      [] event_type = "watchlist" -> 6
      [] OTHER -> 7

\* pd.to_datetime(occurred_at, errors="coerce", utc=True).fillna(now_ts)
OccurredAt(row) == IF row.occurred_at = None THEN Now ELSE Get(row.occurred_at)

\* Mutant of SortKeyLess: the sort leaves occurred_at out of its key.
SortKeyLess_NoTime(a, b) ==
    \/ a.user_id < b.user_id
    \/ a.user_id = b.user_id /\ a.tmdb_id < b.tmdb_id
    \/ a.user_id = b.user_id /\ a.tmdb_id = b.tmdb_id
         /\ EventTypeRank(a.event_type) < EventTypeRank(b.event_type)

\* The lexicographic order of sort_values(["user_id", "tmdb_id", "event_type",
\* "occurred_at"]): row a sorts strictly before row b.
SortKeyLess(a, b) ==
    \/ a.user_id < b.user_id
    \/ a.user_id = b.user_id /\ a.tmdb_id < b.tmdb_id
    \/ a.user_id = b.user_id /\ a.tmdb_id = b.tmdb_id
         /\ EventTypeRank(a.event_type) < EventTypeRank(b.event_type)
    \/ a.user_id = b.user_id /\ a.tmdb_id = b.tmdb_id
         /\ a.event_type = b.event_type /\ OccurredAt(a) < OccurredAt(b)

\* One pass of the stable sort: row x is inserted into the sorted sequence s after
\* every row that does not sort strictly after it.
RECURSIVE InsertStable(_, _)
InsertStable(s, x) ==
    IF s = <<>> THEN <<x>>
    ELSE IF SortKeyLess(x, s[Len(s)])
      THEN Append(InsertStable(SubSeq(s, 1, Len(s) - 1), x), s[Len(s)])
      ELSE Append(s, x)

\* work.sort_values([...], kind="mergesort"): a stable sort of the rows.
RECURSIVE SortValues(_)
SortValues(work) ==
    IF work = <<>> THEN <<>>
    ELSE InsertStable(SortValues(SubSeq(work, 1, Len(work) - 1)), work[Len(work)])

SameGroup(a, b) ==
    a.user_id = b.user_id /\ a.tmdb_id = b.tmdb_id /\ a.event_type = b.event_type

\* work.groupby(["user_id", "tmdb_id", "event_type"]).tail(1): the last row of each
\* group, in the order of the sorted frame.
GroupTail(sorted) ==
    {sorted[i] : i \in {j \in 1..Len(sorted) :
                          \A k \in (j + 1)..Len(sorted) : ~SameGroup(sorted[j], sorted[k])}}

\* latest["event_weight"] = _event_weight(...) * _recency_multiplier(...)
RowWeight(row) ==
    Mul(EventWeight(row.event_type, row.event_value), RecencyMultiplier(OccurredAt(row), Now))

RECURSIVE SumWeights(_)
SumWeights(rows) ==
    IF rows = {} THEN 0
    ELSE LET r == CHOOSE x \in rows : TRUE
         IN  RowWeight(r) + SumWeights(rows \ {r})

\* Mutant of LatestPositive: rows of weight 0 are kept.
LatestPositive_NonNegative(frame) == {r \in GroupTail(SortValues(frame)) : RowWeight(r) >= 0}

\* Mutant of ClipScore: the ceiling is not applied.
ClipScore_NoCeiling(x) == Max(0, x)

\* grouped["score"].clip(lower=0.0, upper=6.0)
ClipScore(x) == Clip(x, 0, SCORE_CEILING)

\* latest = latest[latest["event_weight"] > 0], of the sorted and grouped frame
LatestPositive(frame) == {r \in GroupTail(SortValues(frame)) : RowWeight(r) > 0}

\* _normalize_scores(df)
NormalizeScores(frame) ==
    IF frame = <<>> THEN {}
    ELSE LET latest == LatestPositive(frame)
             keys == {<<r.user_id, r.tmdb_id>> : r \in latest}
         IN  {[user_id |-> k[1], tmdb_id |-> k[2],
               score |-> ClipScore(SumWeights({r \in latest :
                                      r.user_id = k[1] /\ r.tmdb_id = k[2]}))] : k \in keys}

\* normalized.pivot_table(index="user_id", columns="tmdb_id", values="score",
\* fill_value=0.0, aggfunc="sum"): the cell of user u and item i.
RECURSIVE SumScores(_)
SumScores(rows) ==
    IF rows = {} THEN 0
    ELSE LET r == CHOOSE x \in rows : TRUE
         IN  r.score + SumScores(rows \ {r})

PivotUsers(norm) == {r.user_id : r \in norm}
PivotItems(norm) == {r.tmdb_id : r \in norm}
PivotCell(norm, u, i) == SumScores({r \in norm : r.user_id = u /\ r.tmdb_id = i})

(***************************************************************************)
(* SpecNorm: _normalize_scores applied to bounded DataFrames               *)
(***************************************************************************)
EventRow(u, i, k, v, ts) ==
    [user_id |-> u, tmdb_id |-> i, event_type |-> k, event_value |-> v, occurred_at |-> ts]

\* The rows a DataFrame is drawn from: three event kinds, present, revoked and
\* valued, recent and old, on one title of one user; and single events on a second
\* title, of a second user, with an unparseable timestamp and of an unknown kind.
EventRows ==
    {EventRow(1, 100, k, v, ts) :
        k \in {"favorite", "rating", "favorite_actor"},
        v \in {None, Some(0), Some(10)},
        ts \in {Some(Now), Some(Now - RECENCY_HALF_LIFE_DAYS)}}
    \cup {EventRow(1, 200, "watched", None, None),
          EventRow(2, 100, "watchlist", Some(1), Some(Now)),
          EventRow(2, 100, "shared", None, Some(Now))}

InitNorm ==
    /\ NormIdle
    /\ CacheIdle
    /\ RecIdle
    /\ BlendIdle

\* One more row in the DataFrame handed to _normalize_scores.
AddEvent ==
    /\ ~normDone
    /\ Len(events) < MaxEvents
    /\ \E row \in EventRows : events' = Append(events, row)
    /\ UNCHANGED <<normalized, normDone, cacheVars, recVars, blendVars>>

\* normalized = _normalize_scores(interactions)
Normalize ==
    /\ ~normDone
    /\ normalized' = NormalizeScores(events)
    /\ normDone' = TRUE
    /\ UNCHANGED <<events, cacheVars, recVars, blendVars>>

NextNorm == AddEvent \/ Normalize

SpecNorm == InitNorm /\ [][NextNorm]_vars

(***************************************************************************)
(* Claims about _normalize_scores (checked under SpecNorm)                 *)
(***************************************************************************)
\* The positions of the rows of (user u, item i, kind k) in the input.
RowsOf(u, i, k) ==
    {j \in 1..Len(events) :
        events[j].user_id = u /\ events[j].tmdb_id = i /\ events[j].event_type = k}

\* The row of (u, i, k) with the latest occurred_at; among equally late ones the one
\* that comes last in the input.
Winner(u, i, k) ==
    CHOOSE j \in RowsOf(u, i, k) :
        \A o \in RowsOf(u, i, k) :
            \/ OccurredAt(events[o]) < OccurredAt(events[j])
            \/ OccurredAt(events[o]) = OccurredAt(events[j]) /\ o <= j

RECURSIVE SumOverKinds(_, _, _)
SumOverKinds(u, i, kinds) ==
    IF kinds = {} THEN 0
    ELSE LET k == CHOOSE x \in kinds : TRUE
         IN  RowWeight(events[Winner(u, i, k)]) + SumOverKinds(u, i, kinds \ {k})

\* The sum, over the kinds recorded for (u, i), of the weight of the kind's winner.
ExpectedSum(u, i) ==
    SumOverKinds(u, i, {events[j].event_type :
                           j \in {o \in 1..Len(events) :
                                    events[o].user_id = u /\ events[o].tmdb_id = i}})

\* C9: for every (user, item) the normalised score is the sum over event kinds of the
\* weight of that kind's latest record only (last in input order among equally late
\* ones), capped at the ceiling; records that the latest one supersedes add nothing,
\* so a latest record of weight zero removes its kind's contribution, and a (user,
\* item) whose sum is zero has no row.
C9_LatestPerKindSummedAcrossKinds ==
    normDone =>
        \A u \in {1, 2}, i \in {100, 200} :
            LET rows == {r \in normalized : r.user_id = u /\ r.tmdb_id = i}
            IN  IF ExpectedSum(u, i) > 0
                  THEN rows = {[user_id |-> u, tmdb_id |-> i,
                                score |-> Min(SCORE_CEILING, ExpectedSum(u, i))]}
                  ELSE rows = {}

\* C9 witness: a revocation is the latest record of its kind although a positive
\* record of that kind comes after it in the input, a record of another kind of the
\* same (user, item) has positive weight, and the score is that other record's weight.
C9_Witness ==
    /\ normDone
    /\ \E a, b, c \in 1..Len(events) :
          /\ a < b
          /\ SameGroup(events[a], events[b])
          /\ OccurredAt(events[b]) < OccurredAt(events[a])
          /\ RowWeight(events[a]) = 0 /\ RowWeight(events[b]) > 0
          /\ events[c].user_id = events[a].user_id
          /\ events[c].tmdb_id = events[a].tmdb_id
          /\ events[c].event_type # events[a].event_type
          /\ RowWeight(events[c]) > 0
          /\ [user_id |-> events[c].user_id, tmdb_id |-> events[c].tmdb_id,
              score |-> RowWeight(events[c])] \in normalized

\* C10: every row _normalize_scores returns has 0 < score <= 6.0, there is one row
\* per (user, item), and every cell of the pivoted user-item matrix is in [0, 6.0].
C10_ScoreWithinBounds ==
    normDone =>
        /\ \A r \in normalized : r.score > 0 /\ r.score <= SCORE_CEILING
        /\ \A r, q \in normalized :
              (r.user_id = q.user_id /\ r.tmdb_id = q.tmdb_id) => r = q
        /\ \A u \in PivotUsers(normalized), i \in PivotItems(normalized) :
              PivotCell(normalized, u, i) >= 0 /\ PivotCell(normalized, u, i) <= SCORE_CEILING

\* C10 witness: the surviving weights of one (user, item) sum to more than the ceiling
\* and its row holds exactly the ceiling, next to a cell the pivot filled with 0.
C10_Witness ==
    /\ normDone
    /\ \E r \in normalized :
          /\ r.score = SCORE_CEILING
          /\ SumWeights({x \in LatestPositive(events) :
                            x.user_id = r.user_id /\ x.tmdb_id = r.tmdb_id}) > SCORE_CEILING

(***************************************************************************)
(* More fixed-point arithmetic                                             *)
(***************************************************************************)
\* Newton's iteration for the integer square root of n, from the guess g.
RECURSIVE SqrtIter(_, _)
SqrtIter(n, g) ==
    LET h == (g + n \div g) \div 2
    IN  IF h >= g THEN g ELSE SqrtIter(n, h)

\* floor(sqrt(n)); for n a sum of squares of fixed-point numbers this is the
\* fixed-point np.linalg.norm.
Isqrt(n) == IF n <= 0 THEN 0 ELSE SqrtIter(n, n)

\* ln(m / SCALE) * SCALE for SCALE <= m <= 2 * SCALE: 2 * atanh(z), z = (m-1)/(m+1).
LnUnit(m) ==
    LET z == ((m - SCALE) * SCALE) \div (m + SCALE)
        z2 == Mul(z, z)
        z3 == Mul(z, z2)
        z5 == Mul(z3, z2)
        z7 == Mul(z5, z2)
    IN  2 * (z + z3 \div 3 + z5 \div 5 + z7 \div 7)

\* ln(y / SCALE) * SCALE for y >= SCALE: halve y down to [SCALE, 2 * SCALE].
RECURSIVE Ln(_)
Ln(y) == IF y > 2 * SCALE THEN LnUnit(2 * SCALE) + Ln(y \div 2) ELSE LnUnit(y)

\* np.log1p(x) for a fixed-point x >= 0
Log1p(x) == Ln(SCALE + Max(0, x))

\* The sum of the values of a function with a finite domain.
RECURSIVE SumOver(_, _)
SumOver(f, S) ==
    IF S = {} THEN 0
    ELSE LET x == CHOOSE y \in S : TRUE
         IN  f[x] + SumOver(f, S \ {x})

SumFn(f) == SumOver(f, DOMAIN f)

\* dict.get(key, 0.0)
At(d, key) == IF key \in DOMAIN d THEN d[key] ELSE 0

\* The empty dict.
Empty == <<>>

\* The dict d itself, its entries computed once (instead of at every lookup).
Dict(d) == d @@ Empty

(***************************************************************************)
(* src/ml/train.py: training                                               *)
(***************************************************************************)
\* follows_by_follower of train_artifacts: follower -> set of followees, built from
\* the rows of the follows DataFrame (a set of <<follower, followee>> pairs); rows
\* with a non-positive id and self-follows are skipped.
FollowsByFollower(follows) ==
    LET kept == {e \in follows : e[1] > 0 /\ e[2] > 0 /\ e[1] # e[2]}
    IN  [f \in {e[1] : e \in kept} |-> {e[2] : e \in {x \in kept : x[1] = f}}]

\* train_artifacts: knn is fitted if sparse.shape[0] >= 2 and sparse.shape[1] >= 1
HasUserKnn(n_users, n_items) == n_users >= 2 /\ n_items >= 1

\* Mutant of HasItemKnn: the item index needs two rows as well.
HasItemKnn_TwoUsers(n_users, n_items) == n_items >= 2 /\ n_users >= 2

\* train_artifacts: item_knn is fitted if sparse.shape[1] >= 2 and sparse.shape[0] >= 1
HasItemKnn(n_users, n_items) == n_items >= 2 /\ n_users >= 1

\* train_artifacts: n_components = max(2, min(32, shape[0] - 1, shape[1] - 1))
SvdComponents(n_users, n_items) == Max(2, Min(32, Min(n_users - 1, n_items - 1)))

\* train_artifacts: the factorisation runs if both dimensions are >= 2 (and
\* n_components >= 2)
HasSvd(n_users, n_items) ==
    n_users >= 2 /\ n_items >= 2 /\ SvdComponents(n_users, n_items) >= 2

\* train_artifacts past the normalisation: the bundle built from the normalised
\* score rows, the follows rows, and `factors`, the item embeddings
\* TruncatedSVD.fit_transform returns for this matrix (item -> vector).
TrainArtifacts(norm, follows, factors) ==
    IF norm = {}
      THEN [user_ids |-> {}, item_ids |-> {}, cell |-> Empty, knn |-> FALSE,
            item_knn |-> FALSE, item_factors |-> None, popularity |-> Empty,
            follows_by_follower |-> FollowsByFollower(follows)]
      ELSE LET us == PivotUsers(norm)
               is == PivotItems(norm)
               nu == Cardinality(us)
               ni == Cardinality(is)
           IN  [user_ids |-> us,
                item_ids |-> is,
                cell |-> [c \in us \X is |-> PivotCell(norm, c[1], c[2])],
                knn |-> HasUserKnn(nu, ni),
                item_knn |-> HasItemKnn(nu, ni),
                item_factors |-> IF HasSvd(nu, ni) THEN Some(factors) ELSE None,
                popularity |-> [i \in is |-> SumScores({r \in norm : r.tmdb_id = i})],
                follows_by_follower |-> FollowsByFollower(follows)]

(***************************************************************************)
(* src/ml/train.py: the signals                                            *)
(*                                                                         *)
(* A function of the source is written as a chain of operators, each       *)
(* standing for a run of its lines and taking the locals computed before    *)
(* it as parameters.                                                       *)
(***************************************************************************)
\* art.sparse_matrix[uidx].toarray().ravel(): item -> value
UserVec(a, u) == Dict([i \in a.item_ids |-> a.cell[<<u, i>>]])

\* art.sparse_matrix.T[item_idx]: user -> value
ItemVec(a, i) == Dict([u \in a.user_ids |-> a.cell[<<u, i>>]])

\* np.linalg.norm(vec)
Norm(x) == Isqrt(SumFn([k \in DOMAIN x |-> x[k] * x[k]]))

\* dot / (nx * ny), clamped to [0, 1]; 0 when one of the norms is 0
CosOf(dot, nx, ny) ==
    IF nx = 0 \/ ny = 0 THEN 0
    ELSE Clip(((dot \div nx) * SCALE) \div ny, 0, SCALE)

\* 1 - cosine distance of two vectors
CosSim(x, y) == CosOf(SumFn([k \in DOMAIN x |-> x[k] * y[k]]), Norm(x), Norm(y))

\* NearestNeighbors.kneighbors(vec, n_neighbors=k): k members of `all` such that none
\* left out is strictly nearer than one taken; sim[m] is the similarity of m.
Kneighbors(all, sim, k) ==
    IF k >= Cardinality(all) THEN all
    ELSE CHOOSE S \in SUBSET all :
            /\ Cardinality(S) = k
            /\ \A m \in S, o \in all \ S : sim[m] >= sim[o]

\* _seen_items(art, user_id)
SeenItems(a, user_id) ==
    IF user_id \notin a.user_ids THEN {}
    ELSE {i \in a.item_ids : a.cell[<<user_id, i>>] > 0}

\* _knn_scores: sims = 1.0 - distances[0], for every row of the matrix
UserSims(a, user_id) ==
    Dict([v \in a.user_ids |-> CosSim(UserVec(a, user_id), UserVec(a, v))])

\* _knn_scores: the neighbours the loop does not skip
KnnNeighbors(a, user_id, sims) ==
    {v \in Kneighbors(a.user_ids, sims, Max(2, Min(20, Cardinality(a.user_ids)))) \ {user_id} :
        sims[v] > 10 /\ Norm(UserVec(a, v)) > 0}

\* _knn_scores: contribution = sim * (value / neighbor_norm) * neighbor_density
KnnContribution(a, v, i, sim) ==
    Mul(Mul(sim, (a.cell[<<v, i>>] * SCALE) \div Norm(UserVec(a, v))),
        Max(800, Log1p(Cardinality({j \in a.item_ids : a.cell[<<v, j>>] # 0}) * SCALE)))

\* _knn_scores: (raw / support) * confidence
KnnConfident(raw, support) ==
    Mul((raw * SCALE) \div support, Min(1250, 550 + Log1p(support)))

\* _knn_scores: the out dict from the scores and supports dicts
KnnOut(scores, supports) ==
    Dict([i \in {j \in DOMAIN scores : supports[j] > 0} |->
             KnnConfident(scores[i], supports[i])])

\* _knn_scores: the two accumulation dicts over the neighbours, then out
KnnAccumulate(a, near, sims) ==
    LET touched(i) == {v \in near : a.cell[<<v, i>>] > 0}
        keys == {i \in a.item_ids : touched(i) # {}}
    IN  KnnOut(Dict([i \in keys |->
                        SumFn([v \in touched(i) |-> KnnContribution(a, v, i, sims[v])])]),
               Dict([i \in keys |-> SumFn([v \in touched(i) |-> sims[v]])]))

KnnFrom(a, user_id, sims) == KnnAccumulate(a, KnnNeighbors(a, user_id, sims), sims)

\* _knn_scores(art, user_id, k_neighbors=20)
KnnScores(a, user_id) ==
    IF ~a.knn \/ user_id \notin a.user_ids THEN Empty
    ELSE KnnFrom(a, user_id, UserSims(a, user_id))

\* _svd_scores: raw = art.item_factors @ profile
SvdRaw(a, f, dims, profile) ==
    Dict([i \in a.item_ids |-> SumFn([c \in dims |-> Mul(f[i][c], profile[c])])])

\* _svd_scores: profile = weighted.sum(axis=0) / max(user_vec.sum(), 1e-8)
SvdProfile(a, f, dims, user_vec) ==
    SvdRaw(a, f, dims,
           Dict([c \in dims |->
                    SumFn([i \in a.item_ids |-> f[i][c] * user_vec[i]])
                        \div Max(SumFn(user_vec), 1)]))

\* _svd_scores(art, user_id)
SvdScores(a, user_id) ==
    IF a.item_factors = None \/ user_id \notin a.user_ids THEN Empty
    ELSE IF \A i \in a.item_ids : a.cell[<<user_id, i>>] <= 0 THEN Empty
    ELSE SvdProfile(a, Get(a.item_factors),
                    DOMAIN Get(a.item_factors)[CHOOSE i \in a.item_ids : TRUE],
                    UserVec(a, user_id))

\* The similarities of the seed items to every item.
ItemSims(a, seeds) ==
    Dict([p \in seeds \X a.item_ids |-> CosSim(ItemVec(a, p[1]), ItemVec(a, p[2]))])

\* The loop both item-neighbour passes share: for every seed s (with weight w[s]) and
\* every neighbour item n of s with similarity above `floor`, sim * w[s] is added to
\* n's entry.
ItemNeighbourSums(a, seeds, w, k, floor, sim) ==
    LET near(s) == {n \in Kneighbors(a.item_ids, [n \in a.item_ids |-> sim[<<s, n>>]], k) \ {s} :
                       sim[<<s, n>>] > floor}
        from(n) == {s \in seeds : n \in near(s)}
    IN  Dict([n \in {m \in a.item_ids : from(m) # {}} |->
                 SumFn([s \in from(n) |-> Mul(sim[<<s, n>>], w[s])])])

\* _item_knn_scores: out[item] = raw * min(1.2, 0.6 + log1p(max(0, support)))
ItemKnnOut(scores) ==
    Dict([n \in DOMAIN scores |->
             Mul(scores[n], Min(1200, 600 + Log1p(Max(0, scores[n]))))])

\* _item_knn_scores: normalized_base of every seen item
ItemKnnBase(seen, user_vec, seed_total_strength) ==
    Dict([i \in seen |-> (user_vec[i] * SCALE) \div seed_total_strength])

\* float(sum(...)) or 1.0
OrOne(total) == IF total = 0 THEN SCALE ELSE total

ItemKnnFrom(a, seen, user_vec) ==
    IF seen = {} THEN Empty
    ELSE ItemKnnOut(ItemNeighbourSums(
             a, seen,
             ItemKnnBase(seen, user_vec, OrOne(SumFn([i \in seen |-> user_vec[i]]))),
             Max(2, Min(30, Cardinality(a.item_ids))), 10, ItemSims(a, seen)))

\* _item_knn_scores(art, user_id, k_neighbors=30)
ItemKnnScores(a, user_id) ==
    IF ~a.item_knn \/ user_id \notin a.user_ids THEN Empty
    ELSE ItemKnnFrom(a, SeenItems(a, user_id), UserVec(a, user_id))

\* sorted(ranked, key=value, reverse=True) of a stable sort: the items of S by
\* descending value, equal values in ascending index order.
RECURSIVE RankDesc(_, _)
RankDesc(S, val) ==
    IF S = {} THEN <<>>
    ELSE LET top == CHOOSE i \in S :
                       \A j \in S : val[i] > val[j] \/ (val[i] = val[j] /\ i <= j)
         IN  <<top>> \o RankDesc(S \ {top}, val)

PROFILE_SEED_COUNT == 5
PROFILE_NEIGHBOR_COUNT == 35
PROFILE_ITEM_BLEND_WEIGHT == 450

\* ranked[: max(1, seed_count)]
FirstSeeds(ranked, seed_count) == SubSeq(ranked, 1, Min(Len(ranked), Max(1, seed_count)))

\* _profile_seed_indices(art, user_id, seed_count)
ProfileSeedIndices(a, user_id, seed_count) ==
    IF user_id \notin a.user_ids THEN <<>>
    ELSE FirstSeeds(RankDesc(SeenItems(a, user_id), UserVec(a, user_id)), seed_count)

\* _profile_similar_scores: normalized_base * rank_boost of every seed
ProfileWeights(seed_indices, user_vec, seed_total, seed_total_strength) ==
    Dict([r \in 1..Len(seed_indices) |->
             Mul((user_vec[seed_indices[r]] * SCALE) \div seed_total_strength,
                 SCALE + Mul(((seed_total - (r - 1)) * SCALE) \div seed_total, 600))])

\* The weights of ProfileWeights by seed item instead of by rank.
BySeed(seed_indices, by_rank) ==
    Dict([s \in {seed_indices[r] : r \in 1..Len(seed_indices)} |->
             by_rank[CHOOSE r \in 1..Len(seed_indices) : seed_indices[r] = s]])

SeedStrength(seed_indices, user_vec) ==
    OrOne(SumFn([r \in 1..Len(seed_indices) |-> user_vec[seed_indices[r]]]))

ProfileFrom(a, seed_indices, user_vec, seeds) ==
    IF seed_indices = <<>> THEN Empty
    ELSE ItemNeighbourSums(
             a, seeds,
             BySeed(seed_indices,
                    ProfileWeights(seed_indices, user_vec, Max(1, Len(seed_indices)),
                                   SeedStrength(seed_indices, user_vec))),
             Max(2, Min(PROFILE_NEIGHBOR_COUNT, Cardinality(a.item_ids))), 0,
             ItemSims(a, seeds))

SeedSet(seed_indices) == {seed_indices[r] : r \in 1..Len(seed_indices)}

ProfileSeeded(a, user_id, seed_indices) ==
    ProfileFrom(a, seed_indices, UserVec(a, user_id), SeedSet(seed_indices))

\* _profile_similar_scores(art, user_id)
ProfileSimilarScores(a, user_id) ==
    IF ~a.item_knn \/ user_id \notin a.user_ids THEN Empty
    ELSE ProfileSeeded(a, user_id, ProfileSeedIndices(a, user_id, PROFILE_SEED_COUNT))

\* _merge_item_signals: the merged value of one key
MergedScore(i_score, p_score, base_weight) ==
    IF i_score <= 0 THEN p_score
    ELSE IF p_score <= 0 THEN i_score
    ELSE Mul(base_weight, i_score) + Mul(PROFILE_ITEM_BLEND_WEIGHT, p_score)

\* _merge_item_signals(item_knn_scores, profile_similar_scores)
MergeItemSignals(item_knn_scores, profile_similar_scores) ==
    Dict([n \in DOMAIN item_knn_scores \cup DOMAIN profile_similar_scores |->
             MergedScore(At(item_knn_scores, n), At(profile_similar_scores, n),
                         Max(0, SCALE - PROFILE_ITEM_BLEND_WEIGHT))])

\* art.follows_by_follower.get(user_id, set())
Followees(a, user_id) ==
    IF user_id \in DOMAIN a.follows_by_follower THEN a.follows_by_follower[user_id] ELSE {}

\* _follow_scores: the followees the loop does not skip
ActiveFollowees(a, user_id) ==
    {f \in Followees(a, user_id) :
        f \in a.user_ids /\ \E i \in a.item_ids : a.cell[<<f, i>>] > 0}

\* _follow_scores: weight = 0.9 + 1.3 * similarity, for every followee kept
FollowWeights(a, user_id, followees) ==
    Dict([f \in followees |->
             900 + Mul(1300, IF user_id \in a.user_ids /\ Norm(UserVec(a, user_id)) > 0
                               THEN CosSim(UserVec(a, user_id), UserVec(a, f))
                               ELSE 0)])

FollowAccumulate(a, followees, weight) ==
    LET from(i) == {f \in followees : a.cell[<<f, i>>] > 0}
    IN  Dict([i \in {j \in a.item_ids : from(j) # {}} |->
                 SumFn([f \in from(i) |-> Mul(weight[f], a.cell[<<f, i>>])])])

FollowFrom(a, user_id, followees) ==
    FollowAccumulate(a, followees, FollowWeights(a, user_id, followees))

\* _follow_scores(art, user_id)
FollowScores(a, user_id) == FollowFrom(a, user_id, ActiveFollowees(a, user_id))

\* The tier rows of _effective_blend_weights:
\* <<user_knn, item_knn, svd, follow_taste, popularity>>
TierWeights(seen_count) ==
    IF seen_count >= 18 THEN <<370, 330, 200, 80, 20>>
    ELSE IF seen_count >= 8 THEN <<350, 310, 200, 100, 40>>
    ELSE IF seen_count >= 1 THEN <<280, 240, 180, 100, 200>>
    ELSE <<80, 60, 60, 50, 750>>

\* Mutant of FollowAdjusted: without followees the follow slice is dropped, not moved.
FollowAdjusted_SliceDropped(t, follow_count) ==
    IF follow_count <= 0
      THEN <<t[1], t[2], t[3], 0, t[5]>>
    ELSE IF follow_count >= 5
      THEN <<t[1], t[2], t[3], Min(220, t[4] + 30), Max(10, t[5] - 20)>>
    ELSE t

\* _effective_blend_weights: the adjustment for the number of followees
FollowAdjusted(t, follow_count) ==
    IF follow_count <= 0
      THEN <<t[1], t[2] + Mul(t[4], 500), t[3] + Mul(t[4], 300), 0, t[5] + Mul(t[4], 200)>>
    ELSE IF follow_count >= 5
      THEN <<t[1], t[2], t[3], Min(220, t[4] + 30), Max(10, t[5] - 20)>>
    ELSE t

\* _effective_blend_weights: {k: v / total}
Renormalized(base, total) ==
    [user_knn |-> (base[1] * SCALE) \div total,
     item_knn |-> (base[2] * SCALE) \div total,
     svd |-> (base[3] * SCALE) \div total,
     follow_taste |-> (base[4] * SCALE) \div total,
     popularity |-> (base[5] * SCALE) \div total]

WeightsFrom(base) == Renormalized(base, OrOne(base[1] + base[2] + base[3] + base[4] + base[5]))

\* _effective_blend_weights(art, user_id, seen_count), as a record
EffectiveBlendWeights(a, user_id, seen_count) ==
    WeightsFrom(FollowAdjusted(TierWeights(seen_count), Cardinality(Followees(a, user_id))))

\* values.max()
MaxOf(values) ==
    CHOOSE v \in {values[k] : k \in DOMAIN values} : \A k \in DOMAIN values : values[k] <= v

\* values.min()
MinOf(values) ==
    CHOOSE v \in {values[k] : k \in DOMAIN values} : \A k \in DOMAIN values : values[k] >= v

\* _normalize_component_scores: the min-max scaling of the clipped values
MinMaxScaled(values, min_v, max_v) ==
    IF max_v <= min_v
      THEN Dict([k \in DOMAIN values |-> IF max_v > 0 THEN SCALE ELSE 0])
      ELSE Dict([k \in DOMAIN values |-> ((values[k] - min_v) * SCALE) \div (max_v - min_v)])

ScaledValues(values) == MinMaxScaled(values, MinOf(values), MaxOf(values))

\* Mutant of NormalizeComponentScores: negative scores are not raised to 0.
NormalizeComponentScores_NoClamp(scores, use_log) ==
    IF DOMAIN scores = {} THEN Empty
    ELSE ScaledValues(Dict([k \in DOMAIN scores |->
                               IF use_log THEN Log1p(scores[k]) ELSE scores[k]]))

\* _normalize_component_scores(scores, use_log)
NormalizeComponentScores(scores, use_log) ==
    IF DOMAIN scores = {} THEN Empty
    ELSE ScaledValues(Dict([k \in DOMAIN scores |->
                               IF use_log THEN Log1p(Max(scores[k], 0))
                               ELSE Max(scores[k], 0)]))

(***************************************************************************)
(* src/ml/train.py: recommend                                              *)
(***************************************************************************)
MIN_PERSONAL_SIGNAL == 50

\* Mutant of MinPersonalSignal: one floor for every seen_count.
MinPersonalSignal_NoTiers(seen_count) == MIN_PERSONAL_SIGNAL

\* recommend: the personal floor chosen from seen_count
MinPersonalSignal(seen_count) ==
    IF seen_count >= 12 THEN MIN_PERSONAL_SIGNAL
    ELSE IF seen_count >= 6 THEN Mul(MIN_PERSONAL_SIGNAL, 600)
    ELSE 0

\* Mutant of SkipSeen: seen items stay among the candidates.
SkipSeen_Never(seen, item_id) == FALSE

\* recommend: `if item_id in seen: continue`
SkipSeen(seen, item_id) == item_id \in seen

\* art.user_item.empty
IsEmptyBundle(a) == a.user_ids = {} \/ a.item_ids = {}

\* Mutant of RankFrom: the sorted list is not cut to its n first entries.
RECURSIVE RankFrom_NoCut(_, _, _)
RankFrom_NoCut(S, val, n) ==
    IF S = {} THEN {<<>>}
    ELSE UNION {{<<x>> \o r : r \in RankFrom_NoCut(S \ {x}, val, n)} :
                   x \in {i \in S : \A j \in S : val[i] >= val[j]}}

\* Mutant of RankFrom: the sort is ascending.
RECURSIVE RankFrom_Ascending(_, _, _)
RankFrom_Ascending(S, val, n) ==
    IF S = {} \/ n <= 0 THEN {<<>>}
    ELSE UNION {{<<x>> \o r : r \in RankFrom_Ascending(S \ {x}, val, n - 1)} :
                   x \in {i \in S : \A j \in S : val[i] <= val[j]}}

\* sorted(blended.items(), key=score, reverse=True)[:n]: the n first keys by
\* descending value.  Equal values keep the iteration order of the candidate set,
\* which the language leaves open: every order of a tie is a possible outcome.
RECURSIVE RankFrom(_, _, _)
RankFrom(S, val, n) ==
    IF S = {} \/ n <= 0 THEN {<<>>}
    ELSE UNION {{<<x>> \o r : r \in RankFrom(S \ {x}, val, n - 1)} :
                   x \in {i \in S : \A j \in S : val[i] >= val[j]}}

\* Mutant of Reason: a hit of the follow signal is labelled before anything else.
Reason_FollowFirst(hit_knn, hit_item, hit_profile, hit_svd, hit_follow) ==
    IF hit_follow THEN "follow_taste"
    ELSE IF hit_profile /\ (hit_knn \/ hit_item \/ hit_svd) THEN "profile+hybrid"
    ELSE IF hit_profile THEN "profile_similar"
    ELSE IF hit_knn /\ hit_item /\ hit_svd THEN "knn+item+svd"
    ELSE IF hit_knn /\ hit_item THEN "knn+item"
    ELSE IF hit_knn /\ hit_svd THEN "knn+svd"
    ELSE IF hit_item /\ hit_svd THEN "item+svd"
    ELSE IF hit_knn THEN "knn"
    ELSE IF hit_item THEN "item_knn"
    ELSE IF hit_svd THEN "svd"
    ELSE "popularity"

\* recommend: the reason label, from the hits of the five signals
Reason(hit_knn, hit_item, hit_profile, hit_svd, hit_follow) ==
    IF hit_profile /\ (hit_follow \/ hit_knn \/ hit_item \/ hit_svd) THEN "profile+hybrid"
    ELSE IF hit_profile THEN "profile_similar"
    ELSE IF hit_follow /\ hit_knn /\ hit_item /\ hit_svd THEN "follow+knn+item+svd"
    ELSE IF hit_follow /\ hit_knn /\ hit_item THEN "follow+knn+item"
    ELSE IF hit_follow /\ hit_knn /\ hit_svd THEN "follow+knn+svd"
    ELSE IF hit_follow /\ hit_item /\ hit_svd THEN "follow+item+svd"
    ELSE IF hit_knn /\ hit_item /\ hit_svd THEN "knn+item+svd"
    ELSE IF hit_knn /\ hit_item THEN "knn+item"
    ELSE IF hit_knn /\ hit_svd THEN "knn+svd"
    ELSE IF hit_item /\ hit_svd THEN "item+svd"
    ELSE IF hit_knn THEN "knn"
    ELSE IF hit_item THEN "item_knn"
    ELSE IF hit_svd THEN "svd"
    ELSE IF hit_follow THEN "follow_taste"
    ELSE "popularity"

\* recommend: the weighted sum of the five normalised signals of one candidate
BlendScore(w, k_score, i_score, s_score, f_score, p_score) ==
    Mul(w.user_knn, k_score) + Mul(w.item_knn, i_score) + Mul(w.svd, s_score)
        + Mul(w.follow_taste, f_score) + Mul(w.popularity, p_score)

\* recommend: the candidate passes the personal floor
PassesFloor(user_has_history, personal_strength, min_personal_signal, p_score) ==
    ~(user_has_history /\ personal_strength < min_personal_signal /\ p_score < 820)

\* recommend: the out list of one order of the ranking
OutList(ranked, score, sig) ==
    [k \in 1..Len(ranked) |->
        [tmdb_id |-> ranked[k],
         score |-> score[ranked[k]],
         reason |-> Reason(At(sig.knn, ranked[k]) > 0, At(sig.item, ranked[k]) > 0,
                           At(sig.profile, ranked[k]) > 0, At(sig.svd, ranked[k]) > 0,
                           At(sig.follow, ranked[k]) > 0)]]

\* recommend: the candidate loop, the sort and the labelling.  sig holds the
\* normalised signals, merged the result of _merge_item_signals.
Blend(seen, sig, merged, w, top_n, score) ==
    {OutList(ranked, score, sig) :
        ranked \in RankFrom(
            {i \in DOMAIN score :
                /\ ~SkipSeen(seen, i)
                /\ PassesFloor(Cardinality(seen) > 0,
                               Max(Max(At(sig.knn, i), At(merged, i)),
                                   Max(At(sig.svd, i), At(sig.follow, i))),
                               MinPersonalSignal(Cardinality(seen)),
                               At(sig.popularity, i))
                /\ score[i] > 0},
            score, top_n)}

\* recommend: score of every candidate
CandidateScores(sig, merged, w) ==
    Dict([i \in DOMAIN sig.knn \cup DOMAIN merged \cup DOMAIN sig.svd
                  \cup DOMAIN sig.follow \cup DOMAIN sig.popularity |->
             BlendScore(w, At(sig.knn, i), At(merged, i), At(sig.svd, i),
                        At(sig.follow, i), At(sig.popularity, i))])

Blended(seen, sig, merged, w, top_n) ==
    Blend(seen, sig, merged, w, top_n, CandidateScores(sig, merged, w))

\* recommend: the normalised signals
RecommendSignals(a, user_id) ==
    [knn |-> NormalizeComponentScores(KnnScores(a, user_id), FALSE),
     item |-> NormalizeComponentScores(ItemKnnScores(a, user_id), FALSE),
     profile |-> NormalizeComponentScores(ProfileSimilarScores(a, user_id), FALSE),
     svd |-> NormalizeComponentScores(SvdScores(a, user_id), FALSE),
     follow |-> NormalizeComponentScores(FollowScores(a, user_id), FALSE),
     popularity |-> NormalizeComponentScores(a.popularity, TRUE)]

RecommendFrom(a, user_id, top_n, seen, sig) ==
    Blended(seen, sig, MergeItemSignals(sig.item, sig.profile),
            EffectiveBlendWeights(a, user_id, Cardinality(seen)), top_n)

\* recommend(art, user_id, top_n): the set of lists it can return (one per order of
\* the ties of the final sort); an entry is (tmdb_id, score, reason).
Recommend(a, user_id, top_n) ==
    IF IsEmptyBundle(a) THEN {<<>>}
    ELSE RecommendFrom(a, user_id, top_n, SeenItems(a, user_id), RecommendSignals(a, user_id))

(***************************************************************************)
(* src/ml/train.py: explain_recommendation                                 *)
(***************************************************************************)
\* Mutant of ScoreParts: the follow part is left out of the explanation.
ScoreParts_NoFollow(w, k_score, i_score, s_score, f_score, p_score) ==
    [user_knn |-> Mul(w.user_knn, k_score),
     item_knn |-> Mul(w.item_knn, i_score),
     svd |-> Mul(w.svd, s_score),
     follow_taste |-> 0,
     popularity |-> Mul(w.popularity, p_score)]

\* explain_recommendation: score_parts, each weight times its normalised signal
ScoreParts(w, k_score, i_score, s_score, f_score, p_score) ==
    [user_knn |-> Mul(w.user_knn, k_score),
     item_knn |-> Mul(w.item_knn, i_score),
     svd |-> Mul(w.svd, s_score),
     follow_taste |-> Mul(w.follow_taste, f_score),
     popularity |-> Mul(w.popularity, p_score)]

\* sorted(rows, key=..., reverse=True)[:5], as the set of the entries kept; key[r]
\* is the sort key of row r.
TopFive(rows, key) ==
    IF Cardinality(rows) <= 5 THEN rows
    ELSE CHOOSE S \in SUBSET rows :
            /\ Cardinality(S) = 5
            /\ \A r \in S, o \in rows \ S : key[r] >= key[o]

NeighborRows(a, user_id, tmdb_id, sims) ==
    {[user_id |-> v, similarity |-> sims[v],
      interaction_score |-> IF tmdb_id \in a.item_ids THEN a.cell[<<v, tmdb_id>>] ELSE 0] :
        v \in {x \in Kneighbors(a.user_ids, sims, Max(2, Min(15, Cardinality(a.user_ids))))
                       \ {user_id} :
                  sims[x] > 0 /\ tmdb_id \in a.item_ids /\ a.cell[<<x, tmdb_id>>] > 0}}

TopNeighbors(rows) == TopFive(rows, [r \in rows |-> Mul(r.similarity, r.interaction_score)])

\* explain_recommendation: top_neighbor_users
NeighborUsers(a, user_id, tmdb_id) ==
    IF user_id \in a.user_ids /\ a.knn
      THEN TopNeighbors(NeighborRows(a, user_id, tmdb_id, UserSims(a, user_id)))
      ELSE {}

AnchorRows(a, tmdb_id, seen_indices, user_vec, sims) ==
    {[tmdb_id |-> i, similarity |-> sims[<<i, tmdb_id>>], user_strength |-> user_vec[i]] :
        i \in {x \in seen_indices \ {tmdb_id} : sims[<<x, tmdb_id>>] > 0}}

TopAnchors(rows) == TopFive(rows, [r \in rows |-> Mul(r.similarity, r.user_strength)])

\* seed_indices if seed_indices else the positive entries of user_vec
SeenIndices(a, user_id, seed_indices) ==
    IF seed_indices # <<>> THEN SeedSet(seed_indices) ELSE SeenItems(a, user_id)

AnchorsFrom(a, user_id, tmdb_id, seen_indices) ==
    TopAnchors(AnchorRows(a, tmdb_id, seen_indices, UserVec(a, user_id),
                          ItemSims(a, seen_indices)))

\* explain_recommendation: similar_seen_items
SimilarSeenItems(a, user_id, tmdb_id) ==
    IF user_id \in a.user_ids /\ a.item_knn /\ tmdb_id \in a.item_ids
      THEN AnchorsFrom(a, user_id, tmdb_id,
                       SeenIndices(a, user_id,
                                   ProfileSeedIndices(a, user_id, PROFILE_SEED_COUNT)))
      ELSE {}

\* explain_recommendation: the normalised signals
ExplainSignals(a, user_id) ==
    [knn |-> NormalizeComponentScores(KnnScores(a, user_id), FALSE),
     item |-> NormalizeComponentScores(ItemKnnScores(a, user_id), FALSE),
     profile |-> NormalizeComponentScores(ProfileSimilarScores(a, user_id), FALSE),
     svd |-> NormalizeComponentScores(SvdScores(a, user_id), FALSE),
     follow |-> NormalizeComponentScores(FollowScores(a, user_id), FALSE),
     popularity |-> NormalizeComponentScores(a.popularity, TRUE)]

\* explain_recommendation: the returned dict
Payload(a, user_id, tmdb_id, seen, score_parts) ==
    [user_id |-> user_id,
     tmdb_id |-> tmdb_id,
     already_seen |-> tmdb_id \in seen,
     final_score |-> score_parts.user_knn + score_parts.item_knn + score_parts.svd
                       + score_parts.follow_taste + score_parts.popularity,
     score_parts |-> score_parts,
     top_neighbor_users |-> NeighborUsers(a, user_id, tmdb_id),
     similar_seen_items |-> SimilarSeenItems(a, user_id, tmdb_id)]

ExplainFrom(a, user_id, tmdb_id, seen, sig, merged) ==
    Payload(a, user_id, tmdb_id, seen,
            ScoreParts(EffectiveBlendWeights(a, user_id, Cardinality(seen)),
                       At(sig.knn, tmdb_id), At(merged, tmdb_id), At(sig.svd, tmdb_id),
                       At(sig.follow, tmdb_id), At(sig.popularity, tmdb_id)))

ExplainMerged(a, user_id, tmdb_id, seen, sig) ==
    ExplainFrom(a, user_id, tmdb_id, seen, sig, MergeItemSignals(sig.item, sig.profile))

\* explain_recommendation(art, user_id, tmdb_id)
ExplainRecommendation(a, user_id, tmdb_id) ==
    ExplainMerged(a, user_id, tmdb_id, SeenItems(a, user_id), ExplainSignals(a, user_id))

(***************************************************************************)
(* SpecRec: recommend and explain_recommendation on bounded bundles        *)
(***************************************************************************)
MaxTopN == 3

\* The users with interaction rows, the items, and the scores a cell of the
\* normalised frame takes for each user (0: no row).
MatrixUsers == {1, 2}
Items == {10, 20, 30}
ScoreValues(u) == IF u = 1 THEN {0, 1000, 3000} ELSE {0, 2000}
\* A frame with two nearly equally popular items (20 a little ahead of 10) and a
\* far less popular one; user 1 scores 10 above 20.
CloseCall ==
    [c \in MatrixUsers \X Items |->
        IF c = <<1, 10>> THEN 6000
        ELSE IF c = <<1, 20>> THEN 5000
        ELSE IF c = <<2, 10>> THEN 4000
        ELSE IF c = <<2, 20>> THEN 6000
        ELSE IF c = <<2, 30>> THEN 1000
        ELSE 0]

\* Frames of one user and five items: all scores different, all equal, and mixed.
FiveItems == {10, 20, 30, 40, 50}
OneUserMatrices ==
    {[c \in {1} \X FiveItems |-> c[2] * 100],
     [c \in {1} \X FiveItems |-> 2000],
     [c \in {1} \X FiveItems |-> IF c[2] <= 20 THEN 3000 ELSE 1000]}

Matrices == {m \in [MatrixUsers \X Items -> {0, 1000, 2000, 3000}] :
                \A c \in DOMAIN m : m[c] \in ScoreValues(c[1])}
            \cup {CloseCall} \cup OneUserMatrices

\* The users asking for recommendations: 3 never has interaction rows.
QueryUsers == {1, 2, 3}

\* The contents of the user_follows table (4 has neither rows nor followers).
FollowTables == {{}, {<<3, 1>>}, {<<1, 2>>}, {<<3, 4>>}}

\* Item embeddings standing for the outcomes of TruncatedSVD.fit_transform: the
\* k-th item of the matrix gets the k-th vector of one of these lists.
FactorPatterns ==
    {<<[c1 |-> 900, c2 |-> 300], [c1 |-> 500, c2 |-> -400], [c1 |-> 200, c2 |-> 700]>>,
     <<[c1 |-> 1000, c2 |-> 0], [c1 |-> 1000, c2 |-> 0], [c1 |-> -300, c2 |-> 500]>>}

FactorChoices(item_ids) ==
    {[i \in item_ids |-> P[((Cardinality({j \in item_ids : j <= i}) - 1) % Len(P)) + 1]] :
        P \in FactorPatterns}

\* The normalised frame of a matrix: one row per positive cell.
FrameOf(m) ==
    {[user_id |-> c[1], tmdb_id |-> c[2], score |-> m[c]] :
        c \in {d \in DOMAIN m : m[d] > 0}}

\* The rows of the raw interaction frames: a revoked rating, a revoked favorite, an
\* event of an unknown kind, and a favorite standing since RECENCY_HALF_LIFE_DAYS.
RawRows ==
    {EventRow(1, 10, "rating", Some(0), Some(Now)),
     EventRow(1, 10, "favorite", Some(0), Some(Now)),
     EventRow(2, 20, "shared", None, Some(Now)),
     EventRow(1, 10, "favorite", None, Some(Now - RECENCY_HALF_LIFE_DAYS))}

MaxRawRows == 2

\* The raw interaction frames: up to MaxRawRows rows.
RawFrames == UNION {[1..n -> RawRows] : n \in 0..MaxRawRows}

\* train_artifacts(interactions, follows), whose factorisation returns `factors`
TrainOnInteractions(frame, follows, factors) ==
    TrainArtifacts(NormalizeScores(frame), follows, factors)

\* The bundle is trained from a normalised frame.
InitFromFrame ==
    /\ interactions = None
    /\ \E m \in Matrices, follows \in FollowTables :
          \E factors \in FactorChoices(PivotItems(FrameOf(m))) \cup
                           (IF FrameOf(m) = {} THEN {Empty} ELSE {}) :
              bundle = TrainArtifacts(FrameOf(m), follows, factors)

\* The bundle is trained from raw interactions.
InitFromInteractions ==
    \E frame \in RawFrames, follows \in FollowTables :
        /\ interactions = Some(frame)
        /\ \E factors \in FactorChoices(PivotItems(NormalizeScores(frame))) \cup
                           (IF NormalizeScores(frame) = {} THEN {Empty} ELSE {}) :
              bundle = TrainOnInteractions(frame, follows, factors)

InitRec ==
    /\ CacheIdle
    /\ NormIdle
    /\ BlendIdle
    /\ (InitFromFrame \/ InitFromInteractions)
    /\ phase = "trained"
    /\ recUser = 0
    /\ recTopN = 0
    /\ recOut = <<>>
    /\ explItem = 0
    /\ explOut = [user_id |-> 0, tmdb_id |-> 0, already_seen |-> FALSE, final_score |-> 0,
                  score_parts |-> [user_knn |-> 0, item_knn |-> 0, svd |-> 0,
                                   follow_taste |-> 0, popularity |-> 0],
                  top_neighbor_users |-> {}, similar_seen_items |-> {}]

\* rows = recommend(artifacts, user_id=user_id, top_n=top_n)
RecommendCall ==
    /\ phase = "trained"
    /\ \E u \in QueryUsers, n \in {1, MaxTopN} :
          /\ recUser' = u
          /\ recTopN' = n
          /\ \E out \in Recommend(bundle, u, n) : recOut' = out
    /\ phase' = "recommended"
    /\ UNCHANGED <<interactions, bundle, explItem, explOut, cacheVars, normVars, blendVars>>

\* payload = explain_recommendation(artifacts, user_id=user_id, tmdb_id=tmdb_id)
ExplainCall ==
    /\ phase = "recommended"
    /\ \E i \in Items :
          /\ explItem' = i
          /\ explOut' = ExplainRecommendation(bundle, recUser, i)
    /\ phase' = "explained"
    /\ UNCHANGED <<interactions, bundle, recUser, recTopN, recOut, cacheVars, normVars, blendVars>>

NextRec == RecommendCall \/ ExplainCall

SpecRec == InitRec /\ [][NextRec]_vars

(***************************************************************************)
(* Claims about recommend and explain_recommendation (SpecRec)             *)
(***************************************************************************)
\* A recommend call has returned.
Recommended == phase \in {"recommended", "explained"}

\* The items of the list recommend returned, in order.
ReturnedItems == [k \in 1..Len(recOut) |-> recOut[k].tmdb_id]

\* C1: whatever the bundle, the user and top_n, no item recommend returns has a
\* positive value in the user's row of the matrix.
C1_NeverRecommendsSeen ==
    Recommended =>
        \A k \in 1..Len(recOut) :
            ~(/\ recUser \in bundle.user_ids
              /\ bundle.cell[<<recUser, recOut[k].tmdb_id>>] > 0)

\* A user with one seen item out of three asked for three items and got the two
\* unseen ones.
C1_Witness ==
    /\ phase = "recommended"
    /\ recTopN = MaxTopN
    /\ recUser \in bundle.user_ids
    /\ Cardinality(bundle.item_ids) = 3
    /\ Cardinality({i \in bundle.item_ids : bundle.cell[<<recUser, i>>] > 0}) = 1
    /\ Len(recOut) = 2

\* C7: final_score of an explanation is the sum of its five score_parts, and when
\* the explained item is in the list recommend returned for the same user and
\* bundle, final_score is the score of that entry.
C7_ExplainMatchesRecommend ==
    phase = "explained" =>
        /\ explOut.final_score =
               explOut.score_parts.user_knn + explOut.score_parts.item_knn
                 + explOut.score_parts.svd + explOut.score_parts.follow_taste
                 + explOut.score_parts.popularity
        /\ \A k \in 1..Len(recOut) :
               recOut[k].tmdb_id = explItem => recOut[k].score = explOut.final_score

\* The explained item was recommended, and the user-neighbour, item, follow and
\* popularity parts of its score are all positive.
C7_Witness ==
    /\ phase = "explained"
    /\ \E k \in 1..Len(recOut) : recOut[k].tmdb_id = explItem
    /\ explOut.score_parts.user_knn > 0
    /\ explOut.score_parts.item_knn > 0
    /\ explOut.score_parts.follow_taste > 0
    /\ explOut.score_parts.popularity > 0

\* The list returned is ordered by popularity, most popular first.
PopularityOrdered ==
    \A k, l \in 1..Len(recOut) :
        k < l => bundle.popularity[ReturnedItems[k]] >= bundle.popularity[ReturnedItems[l]]

\* The list returned is the popularity ordering and nothing else: every entry is
\* labelled "popularity", the items are those whose popularity is above the lowest
\* one (all of them when every popularity is the same), most popular first, cut
\* to top_n.
PurePopularityRanking ==
    LET pop == bundle.popularity
        kept == {i \in DOMAIN pop :
                    \/ \A j \in DOMAIN pop : pop[j] = pop[i]
                    \/ \E j \in DOMAIN pop : pop[j] < pop[i]}
        returned == {ReturnedItems[k] : k \in 1..Len(recOut)}
    IN  /\ returned \subseteq kept
        /\ Cardinality(returned) = Len(recOut)
        /\ Len(recOut) = Min(recTopN, Cardinality(kept))
        /\ \A k \in 1..Len(recOut) : recOut[k].reason = "popularity"
        /\ PopularityOrdered
        /\ \A i \in kept \ returned, k \in 1..Len(recOut) : pop[ReturnedItems[k]] >= pop[i]

\* The followees of the querying user in the bundle.
FolloweesOfRecUser ==
    IF recUser \in DOMAIN bundle.follows_by_follower
      THEN bundle.follows_by_follower[recUser] ELSE {}

\* C8 as stated: for a user absent from the matrix the ranking is the popularity
\* ordering, whatever follow edges the user has: of two returned items the more
\* popular one never comes second.
C8_ZeroHistoryIsPurePopularity ==
    (Recommended /\ recUser \notin bundle.user_ids) => PopularityOrdered

\* C8: for a user absent from the matrix none of whose followees has a row in
\* the matrix, the ranking is the pure popularity ordering: the items above the
\* lowest popularity, most popular first, cut to top_n, each labelled "popularity".
C8_ZeroHistoryNoActiveFolloweeIsPurePopularity ==
    (/\ Recommended
     /\ recUser \notin bundle.user_ids
     /\ FolloweesOfRecUser \cap bundle.user_ids = {})
        => PurePopularityRanking

\* A user absent from the matrix who follows a user without rows got two items
\* of different popularity.
C8_Witness ==
    /\ phase = "recommended"
    /\ recUser \notin bundle.user_ids
    /\ FolloweesOfRecUser # {}
    /\ FolloweesOfRecUser \cap bundle.user_ids = {}
    /\ Len(recOut) = 2
    /\ bundle.popularity[recOut[1].tmdb_id] > bundle.popularity[recOut[2].tmdb_id]

\* The bundle was trained from raw interactions none of which has a positive weight
\* (the empty frame included).
DegenerateInput ==
    /\ interactions # None
    /\ \A k \in 1..Len(Get(interactions)) : RowWeight(Get(interactions)[k]) <= 0

\* C11: training on an empty interaction frame, or on one whose every event has
\* weight 0, gives the empty bundle with no user index, no item index and no
\* factors; on it recommend returns the empty list for every user, and explain
\* returns final_score 0, five score_parts 0 and empty evidence lists.
C11_DegenerateInputGivesEmptyAnswers ==
    DegenerateInput =>
        /\ bundle.user_ids = {} /\ bundle.item_ids = {} /\ DOMAIN bundle.popularity = {}
        /\ ~bundle.knn /\ ~bundle.item_knn /\ bundle.item_factors = None
        /\ Recommended => recOut = <<>>
        /\ phase = "explained" =>
              /\ explOut.final_score = 0
              /\ explOut.score_parts =
                     [user_knn |-> 0, item_knn |-> 0, svd |-> 0, follow_taste |-> 0,
                      popularity |-> 0]
              /\ explOut.top_neighbor_users = {}
              /\ explOut.similar_seen_items = {}

\* An explanation was given on a bundle trained from two events of weight 0, for a
\* user who follows somebody.
C11_Witness ==
    /\ phase = "explained"
    /\ DegenerateInput
    /\ Len(Get(interactions)) = 2
    /\ recUser \in DOMAIN bundle.follows_by_follower

\* The matrix of the bundle has exactly 1 user and 5 items.
OneUserFiveItems ==
    Cardinality(bundle.user_ids) = 1 /\ Cardinality(bundle.item_ids) = 5

\* C12 as stated: with 1 user and 5 items the bundle has neither a user-similarity
\* nor an item-similarity model, and every item recommend returns is there for its
\* popularity alone.
C12_OneUserBothModelsNull ==
    OneUserFiveItems =>
        /\ ~bundle.knn
        /\ ~bundle.item_knn
        /\ Recommended => \A k \in 1..Len(recOut) : recOut[k].reason = "popularity"

\* C12: with 1 user and 5 items the bundle has no user-similarity model and no
\* factors, but it has the item-similarity model.  recommend returns nothing to the
\* one user of the matrix; to any other user it returns the pure popularity
\* ranking, unless that user follows the user of the matrix, and then the entries
\* are labelled "follow_taste" or "popularity".
C12_OneUserOnlyItemModel ==
    OneUserFiveItems =>
        /\ ~bundle.knn
        /\ bundle.item_knn
        /\ bundle.item_factors = None
        /\ Recommended =>
              /\ recUser \in bundle.user_ids => recOut = <<>>
              /\ FolloweesOfRecUser \cap bundle.user_ids = {} =>
                    (recUser \in bundle.user_ids \/ PurePopularityRanking)
              /\ \A k \in 1..Len(recOut) :
                    recOut[k].reason \in {"popularity", "follow_taste"}

\* On a bundle of 1 user and 5 items, a user without rows who follows the user of
\* the matrix got three items, one of them for the follow signal.
C12_Witness ==
    /\ OneUserFiveItems
    /\ phase = "recommended"
    /\ recUser \notin bundle.user_ids
    /\ FolloweesOfRecUser \cap bundle.user_ids # {}
    /\ Len(recOut) = 3
    /\ \E k \in 1..3 : recOut[k].reason = "follow_taste"

\* The precedence of the reason labels: the label of the first row whose condition
\* holds, k, i, p, s, f being the flags of user_knn, item_knn, profile, svd, follow.
PrecedenceTable(k, i, p, s, f) ==
    << <<p /\ (f \/ k \/ i \/ s), "profile+hybrid">>,
       <<p, "profile_similar">>,
       <<f /\ k /\ i /\ s, "follow+knn+item+svd">>,
       <<f /\ k /\ i, "follow+knn+item">>,
       <<f /\ k /\ s, "follow+knn+svd">>,
       <<f /\ i /\ s, "follow+item+svd">>,
       <<k /\ i /\ s, "knn+item+svd">>,
       <<k /\ i, "knn+item">>,
       <<k /\ s, "knn+svd">>,
       <<i /\ s, "item+svd">>,
       <<k, "knn">>,
       <<i, "item_knn">>,
       <<s, "svd">>,
       <<f, "follow_taste">>,
       <<TRUE, "popularity">> >>

FirstMatch(table) ==
    table[CHOOSE n \in 1..Len(table) : table[n][1] /\ \A m \in 1..(n - 1) : ~table[m][1]][2]

\* The item is a key of the raw score map.
InRawMap(raw, item_id) == item_id \in DOMAIN raw

\* The item's raw score is positive and is not the lowest of a map whose scores
\* (negative ones counted as 0) differ: its min-max normalised score is positive.
ScoresAboveFloor(raw, item_id) ==
    /\ item_id \in DOMAIN raw
    /\ raw[item_id] > 0
    /\ \/ \A j \in DOMAIN raw : Max(raw[j], 0) = raw[item_id]
       \/ \E j \in DOMAIN raw : Max(raw[j], 0) < raw[item_id]

\* C13 as stated: the label of every returned item is the first match of the
\* precedence when a signal's flag means that the item is a key of the signal's raw
\* score map.
C13_ReasonFromRawMaps ==
    phase = "recommended" =>
        \A n \in 1..Len(recOut) :
            recOut[n].reason =
                FirstMatch(PrecedenceTable(
                    InRawMap(KnnScores(bundle, recUser), recOut[n].tmdb_id),
                    InRawMap(ItemKnnScores(bundle, recUser), recOut[n].tmdb_id),
                    InRawMap(ProfileSimilarScores(bundle, recUser), recOut[n].tmdb_id),
                    InRawMap(SvdScores(bundle, recUser), recOut[n].tmdb_id),
                    InRawMap(FollowScores(bundle, recUser), recOut[n].tmdb_id)))

\* C13: the label of every returned item is the first match of the precedence when
\* a signal's flag means that the item's normalised score in that signal's map
\* (before item_knn and profile are merged) is positive: the item is a key of the
\* raw map with a positive score that is not the lowest of differing scores.
C13_ReasonFromNormalisedSignals ==
    phase = "recommended" =>
        \A n \in 1..Len(recOut) :
            recOut[n].reason =
                FirstMatch(PrecedenceTable(
                    ScoresAboveFloor(KnnScores(bundle, recUser), recOut[n].tmdb_id),
                    ScoresAboveFloor(ItemKnnScores(bundle, recUser), recOut[n].tmdb_id),
                    ScoresAboveFloor(ProfileSimilarScores(bundle, recUser), recOut[n].tmdb_id),
                    ScoresAboveFloor(SvdScores(bundle, recUser), recOut[n].tmdb_id),
                    ScoresAboveFloor(FollowScores(bundle, recUser), recOut[n].tmdb_id)))

\* The label the precedence gives an item from the keys of the raw maps.
LabelFromRawMaps(item_id) ==
    FirstMatch(PrecedenceTable(
        InRawMap(KnnScores(bundle, recUser), item_id),
        InRawMap(ItemKnnScores(bundle, recUser), item_id),
        InRawMap(ProfileSimilarScores(bundle, recUser), item_id),
        InRawMap(SvdScores(bundle, recUser), item_id),
        InRawMap(FollowScores(bundle, recUser), item_id)))

\* A returned item carries the label of a personal signal, and not the one the keys
\* of the raw maps would give it: it has the lowest score of one of the maps.
C13_Witness ==
    /\ phase = "recommended"
    /\ \E n \in 1..Len(recOut) :
          /\ recOut[n].reason \notin {"popularity", LabelFromRawMaps(recOut[n].tmdb_id)}
          /\ \/ InRawMap(KnnScores(bundle, recUser), recOut[n].tmdb_id)
                /\ ~ScoresAboveFloor(KnnScores(bundle, recUser), recOut[n].tmdb_id)
             \/ InRawMap(SvdScores(bundle, recUser), recOut[n].tmdb_id)
                /\ ~ScoresAboveFloor(SvdScores(bundle, recUser), recOut[n].tmdb_id)
             \/ InRawMap(FollowScores(bundle, recUser), recOut[n].tmdb_id)
                /\ ~ScoresAboveFloor(FollowScores(bundle, recUser), recOut[n].tmdb_id)

(***************************************************************************)
(* The steps of the blend taken alone (SpecBlend): each is a function of   *)
(* few inputs, drawn here over ranges the small matrices of SpecRec do     *)
(* not reach.                                                              *)
(***************************************************************************)
MaxSeenCount == 19
MaxFollowees == 6

\* The rows of user_follows of a user 1 who follows n users.
FollowEdges(n) == {<<1, 1 + f>> : f \in 1..n}

\* The items the user has seen, and the items recommend chooses among.
SeenOf(n) == 1..n
Candidates == {101, 102, 103}

\* The raw maps of one personal signal and of the popularity.  Normalised, the
\* personal signal is 1 for item 101, x thousandths for item 102 and 0 for item 103;
\* the popularity is 1 for item 101, just below or just above 0.82 for item 102
\* (y) and 0 for item 103.  The items seen are in the popularity map only.
PersonalMap(x) == Dict((101 :> 1500) @@ (102 :> 500 + x) @@ (103 :> 500))
PopularityMap(y, seen) ==
    Dict([i \in Candidates \cup seen |->
             IF i = 101 THEN 3000 ELSE IF i = 102 THEN y ELSE IF i = 103 THEN 100 ELSE 1000])

RawSignals(kind, x, y, seen) ==
    [knn |-> IF kind = "knn" THEN PersonalMap(x) ELSE Empty,
     item |-> IF kind = "item" THEN PersonalMap(x) ELSE Empty,
     profile |-> IF kind = "profile" THEN PersonalMap(x) ELSE Empty,
     svd |-> IF kind = "svd" THEN PersonalMap(x) ELSE Empty,
     follow |-> IF kind = "follow" THEN PersonalMap(x) ELSE Empty,
     popularity |-> PopularityMap(y, seen)]

\* The signals that can score an item for the user: those built from the user's own
\* row need a seen item, the follow signal a followee.
PersonalKinds(seen_count, follow_count) ==
    {"none"} \cup (IF seen_count > 0 THEN {"knn", "item", "profile", "svd"} ELSE {})
             \cup (IF follow_count > 0 THEN {"follow"} ELSE {})

\* recommend: the normalised signals, from the raw maps
NormalizedSignals(raw) ==
    [knn |-> NormalizeComponentScores(raw.knn, FALSE),
     item |-> NormalizeComponentScores(raw.item, FALSE),
     profile |-> NormalizeComponentScores(raw.profile, FALSE),
     svd |-> NormalizeComponentScores(raw.svd, FALSE),
     follow |-> NormalizeComponentScores(raw.follow, FALSE),
     popularity |-> NormalizeComponentScores(raw.popularity, TRUE)]

\* A bundle whose follow table gives user 1 from 0 to MaxFollowees followees (of the
\* bundle _effective_blend_weights reads follows_by_follower only), the user asked
\* about (user 2 follows nobody) and the number of items the user has seen.
InitBlendInputs ==
    /\ blendPhase = "drawn"
    /\ \E n \in 0..MaxFollowees : blendArt = TrainArtifacts({}, FollowEdges(n), Empty)
    /\ blendUser \in {1, 2}
    /\ blendSeen \in 0..MaxSeenCount
    /\ blendWeights = [user_knn |-> 0, item_knn |-> 0, svd |-> 0, follow_taste |-> 0,
                       popularity |-> 0]
    /\ \E kind \in PersonalKinds(blendSeen, Cardinality(Followees(blendArt, blendUser))),
          x \in {20, 30, 40, 50}, y \in {2000, 2200} :
          blendRaw = RawSignals(kind, x, y, SeenOf(blendSeen))
    /\ blendOut = <<>>
    /\ compScores = Empty
    /\ compUseLog = FALSE
    /\ compOut = Empty

\* The raw score maps _normalize_component_scores is given: every map of up to three
\* items with negative, zero and positive scores, the empty map included.
ScoreMaps ==
    UNION {[keys -> {-500, -200, 0, 20, 1000}] : keys \in SUBSET Candidates}

InitScores ==
    /\ blendPhase = "scores"
    /\ blendArt = TrainArtifacts({}, {}, Empty)
    /\ blendUser = 0
    /\ blendSeen = 0
    /\ blendWeights = [user_knn |-> 0, item_knn |-> 0, svd |-> 0, follow_taste |-> 0,
                       popularity |-> 0]
    /\ blendRaw = [knn |-> Empty, item |-> Empty, profile |-> Empty, svd |-> Empty,
                   follow |-> Empty, popularity |-> Empty]
    /\ blendOut = <<>>
    /\ compScores \in ScoreMaps
    /\ compUseLog \in BOOLEAN
    /\ compOut = Empty

InitBlend ==
    /\ CacheIdle
    /\ NormIdle
    /\ RecIdle
    /\ (InitBlendInputs \/ InitScores)

\* blend_weights = _effective_blend_weights(art, user_id, seen_count)
WeightsCall ==
    /\ blendPhase = "drawn"
    /\ blendWeights' = EffectiveBlendWeights(blendArt, blendUser, blendSeen)
    /\ blendPhase' = "weights"
    /\ UNCHANGED <<blendArt, blendUser, blendSeen, blendRaw, blendOut, compScores,
                   compUseLog, compOut, cacheVars, normVars, recVars>>

\* recommend, from the raw score maps on: normalisation, merge, weights, candidate
\* loop, sort and labels, with top_n the number of candidates.
BlendCall ==
    /\ blendPhase = "drawn"
    /\ \E out \in RecommendFrom(blendArt, blendUser, Cardinality(Candidates),
                                 SeenOf(blendSeen), NormalizedSignals(blendRaw)) :
          blendOut' = out
    /\ blendPhase' = "blended"
    /\ UNCHANGED <<blendArt, blendUser, blendSeen, blendWeights, blendRaw, compScores,
                   compUseLog, compOut, cacheVars, normVars, recVars>>

\* _normalize_component_scores(scores, use_log)
NormalizeCall ==
    /\ blendPhase = "scores"
    /\ compOut' = NormalizeComponentScores(compScores, compUseLog)
    /\ blendPhase' = "normalized"
    /\ UNCHANGED <<blendArt, blendUser, blendSeen, blendWeights, blendRaw, blendOut,
                   compScores, compUseLog, cacheVars, normVars, recVars>>

NextBlend == WeightsCall \/ BlendCall \/ NormalizeCall

SpecBlend == InitBlend /\ [][NextBlend]_vars

(***************************************************************************)
(* Claims about the steps of the blend (SpecBlend)                         *)
(***************************************************************************)
\* The tier table, in thousandths: the row of seen_count.
TierRow(n) ==
    IF n >= 18 THEN [user_knn |-> 370, item_knn |-> 330, svd |-> 200,
                     follow_taste |-> 80, popularity |-> 20]
    ELSE IF n >= 8 THEN [user_knn |-> 350, item_knn |-> 310, svd |-> 200,
                         follow_taste |-> 100, popularity |-> 40]
    ELSE IF n >= 1 THEN [user_knn |-> 280, item_knn |-> 240, svd |-> 180,
                         follow_taste |-> 100, popularity |-> 200]
    ELSE [user_knn |-> 80, item_knn |-> 60, svd |-> 60,
          follow_taste |-> 50, popularity |-> 750]

\* The follow rule applied to a row, for a user with n followees.
FollowRule(row, n) ==
    IF n = 0
      THEN [user_knn |-> row.user_knn,
            item_knn |-> row.item_knn + (row.follow_taste * 50) \div 100,
            svd |-> row.svd + (row.follow_taste * 30) \div 100,
            follow_taste |-> 0,
            popularity |-> row.popularity + (row.follow_taste * 20) \div 100]
    ELSE IF n >= 5
      THEN [row EXCEPT !.follow_taste = Min(220, row.follow_taste + 30),
                       !.popularity = Max(10, row.popularity - 20)]
    ELSE row

SignalNames == {"user_knn", "item_knn", "svd", "follow_taste", "popularity"}

RowTotal(row) ==
    row.user_knn + row.item_knn + row.svd + row.follow_taste + row.popularity

\* The weights are the row divided by its total, up to the last thousandth.
IsRenormalizedRow(weights, row) ==
    /\ DOMAIN weights = SignalNames
    /\ \A s \in SignalNames :
          /\ weights[s] >= 0
          /\ weights[s] = (row[s] * SCALE) \div RowTotal(row)
    /\ RowTotal(weights) \in (SCALE - Cardinality(SignalNames))..SCALE

BlendFolloweeCount == Cardinality(Followees(blendArt, blendUser))

\* C14: for every seen_count and every number of followees, the weights returned
\* are the tier row of seen_count, adjusted by the follow rule for the number of
\* followees and divided by its total: none is negative and they sum to 1 (up to one
\* thousandth per weight, lost to the fixed point).
C14_BlendWeightsFollowTierAndFollowRule ==
    blendPhase = "weights" =>
        IsRenormalizedRow(blendWeights, FollowRule(TierRow(blendSeen), BlendFolloweeCount))

\* The weights of a user of the top tier with five followees or more were chosen:
\* the follow weight is raised, the popularity weight is held at its floor and the
\* total divided by is above 1.
C14_Witness ==
    /\ blendPhase = "weights"
    /\ blendSeen >= 18
    /\ BlendFolloweeCount >= 5
    /\ blendWeights.follow_taste > 80
    /\ blendWeights.popularity = (10 * SCALE) \div 1020

\* The items of the list the candidate loop returned.
BlendReturned == {blendOut[n].tmdb_id : n \in 1..Len(blendOut)}

\* The floor of the personal signal, in thousandths.
FloorFor(n) == IF n >= 12 THEN 50 ELSE IF n >= 6 THEN 30 ELSE 0

\* max(user_knn, item_profile, svd, follow) of the normalised signals of an item
PersonalStrength(sig, item_id) ==
    Max(Max(At(sig.knn, item_id), At(MergeItemSignals(sig.item, sig.profile), item_id)),
        Max(At(sig.svd, item_id), At(sig.follow, item_id)))

\* The conditions under which the floor drops an item.
BelowFloor(sig, item_id) ==
    /\ blendSeen > 0
    /\ PersonalStrength(sig, item_id) < FloorFor(blendSeen)
    /\ At(sig.popularity, item_id) < 820

\* C15: a candidate the user has not seen, with a positive popularity signal (so
\* that its final score is positive), is left out of the list exactly when the user
\* has history, the highest of its user_knn, item_profile, svd and follow signals is
\* below the floor of seen_count (0.05 from 12, 0.03 from 6 to 11, 0 below) and its
\* popularity signal is below 0.82; no candidate under the floor is returned, and
\* with seen_count <= 5 every such candidate is returned.
C15_PersonalFloor ==
    blendPhase = "blended" =>
        \A c \in Candidates :
            /\ BelowFloor(NormalizedSignals(blendRaw), c) => c \notin BlendReturned
            /\ At(NormalizedSignals(blendRaw).popularity, c) > 0 =>
                  /\ c \notin BlendReturned <=> BelowFloor(NormalizedSignals(blendRaw), c)
                  /\ blendSeen <= 5 => c \in BlendReturned

\* With the floor at 0.03, an item whose personal signal is 0.02 and whose
\* popularity signal is below 0.82 was left out, while item 101 was returned.
C15_Witness ==
    /\ blendPhase = "blended"
    /\ blendSeen \in 6..11
    /\ PersonalStrength(NormalizedSignals(blendRaw), 102) = 20
    /\ At(NormalizedSignals(blendRaw).popularity, 102) \in 1..819
    /\ 102 \notin BlendReturned
    /\ 101 \in BlendReturned

(***************************************************************************)
(* More claims about recommend (SpecRec)                                   *)
(***************************************************************************)
\* The final score of every item of the matrix for the user of the query, as
\* explain_recommendation computes it.
FinalScores ==
    Dict([i \in bundle.item_ids |-> ExplainRecommendation(bundle, recUser, i).final_score])

\* The surviving candidates: the items the user has not seen whose final score is
\* positive (the personal floor is 0 for the users of these matrices, who have seen
\* 5 items at most).
Survivors(final) ==
    {i \in bundle.item_ids : i \notin SeenItems(bundle, recUser) /\ final[i] > 0}

TopOfSurvivors(final, survivors) ==
    /\ Len(recOut) = Min(recTopN, Cardinality(survivors))
    /\ \A k \in 1..Len(recOut) :
          /\ recOut[k].tmdb_id \in survivors
          /\ recOut[k].score = final[recOut[k].tmdb_id]
          /\ recOut[k].score > 0
          /\ \A l \in 1..Len(recOut) :
                /\ k < l => recOut[k].score >= recOut[l].score
                /\ k # l => recOut[k].tmdb_id # recOut[l].tmdb_id
          /\ \A i \in survivors \ {recOut[l].tmdb_id : l \in 1..Len(recOut)} :
                final[i] <= recOut[k].score

\* C16: the list recommend returns holds the top_n surviving candidates with the
\* highest final scores (all of them when there are fewer), each once, in
\* non-increasing order of score; every score is positive and no survivor left out
\* has a higher score than a returned one.
C16_TopNByDescendingScore ==
    phase = "recommended" => TopOfSurvivors(FinalScores, Survivors(FinalScores))

\* A list of two items or more in strictly decreasing order of score was returned,
\* or a list of one item that leaves out a survivor with a lower score.
C16_Witness ==
    /\ phase = "recommended"
    /\ Len(recOut) = recTopN
    /\ \/ Len(recOut) >= 2 /\ recOut[1].score > recOut[2].score
       \/ \E i \in Survivors(FinalScores) : FinalScores[i] < recOut[1].score
    /\ \E i \in Survivors(FinalScores) :
          i \notin {recOut[l].tmdb_id : l \in 1..Len(recOut)}

\* A raw score with the negative part cut off.
Clamped(v) == Max(v, 0)

\* The scores of the map are all the same.
ConstantScores(scores) == \A j, k \in DOMAIN scores : scores[j] = scores[k]

\* What the claim says of a map whose constancy is judged on the scores m holds,
\* given the scores compared for lowest and highest.
MinMaxOutcome(m, out) ==
    /\ DOMAIN out = DOMAIN m
    /\ ConstantScores(m) =>
          \A k \in DOMAIN m : out[k] = IF Clamped(m[k]) > 0 THEN SCALE ELSE 0
    /\ ~ConstantScores(m) =>
          \A k \in DOMAIN m :
              /\ out[k] \in 0..SCALE
              /\ (\A j \in DOMAIN m : m[k] <= m[j]) => out[k] = 0
              /\ (\A j \in DOMAIN m : m[k] >= m[j]) => out[k] = SCALE

====
